---- MODULE Spec2Model ----
(***************************************************************************)
(* Timeline compositing and frame-decode pipeline of the editor engine:   *)
(*   - FrameBuffer and Decoder   (video-export/parts/decoder.ts)          *)
(*   - decode worker             (video-export/parts/decode_worker.ts)    *)
(*   - demuxer                   (tools/tools/demuxer.ts)                 *)
(*   - Compositor                (compositor/controller.ts)               *)
(*   - engine API                (lib/engine/context.ts)                  *)
(* Times are milliseconds.  Every timebase used divides 1000, so frame    *)
(* intervals are whole milliseconds and the half-frame tolerance test     *)
(* diff <= (1000 / timebase) / 2 is the integer test                      *)
(* 2 * timebase * diff <= 1000.                                           *)
(***************************************************************************)
EXTENDS Integers, Sequences, FiniteSets, TLC

VARIABLES
    fb,          \* FrameBuffer under test: frames (Map order), insertOrder, maxSize, timebase
    fbLast,      \* last FrameBuffer call: [op, ts, ret]
    fbArgs,      \* the constructor arguments fb was built with: [timebase, bsNum]
    closeCalls,  \* frame id -> number of VideoFrame.close() calls made on it
    nextId,      \* next fresh frame id
    effects,     \* state.effects: the effect list of the session snapshot
    transitions, \* state.transitions: the transitions of the session snapshot
    tqLast,      \* last active-effect query: [timecode, result]
    comp,        \* Compositor: #is_playing, #last_time, #pause_time, timecode,
                 \* currently_played_effects, #app, #recreated, #destroyed, animation frame
    eng,         \* engine: instances alive, state.timecode, state.is_playing
    now,         \* performance.now()
    recreating,  \* a recreate() call is awaiting media.are_files_ready()
    recreateDone,\* some recreate() call has run to completion
    engLast,     \* last engine / compositor call: [op, threw, warned, rendered]
    effectStates,\* Decoder.#effectStates: effect id -> worker, buffer, demuxer, messages in flight
    orphans,     \* effect id -> demuxer promises still pending whose worker is terminated
    compTimebase,\* compositor.timebase
    media,       \* effect ids whose file the media controller holds
    drawCalls,   \* frame id -> number of times draw_decoded_frame drew it
    drawnClosed, \* some draw used a frame after close() had been called on it
    exp,         \* the running get_and_draw_decoded_frame call, if any
    steps,       \* the teardown / creation steps of the last Decoder call, in order
    decLast,     \* the Decoder call the last step made, if any: [op, t]
    missRun,     \* effect id -> preview ticks in a row whose lookup missed (observer)
    workers,     \* effect id -> Worker objects created for it and not terminated
    mediaCtl,    \* Media controller: #files_ready, the imports under way, are_files_ready() callers
    ui           \* editor side: usePlaybackStore, the media id mapping, the preview's syncEffects runs

fbVars == <<fb, fbLast, fbArgs, closeCalls, nextId>>

tqVars == <<effects, transitions, tqLast>>

engVars == <<comp, eng, now, recreating, recreateDone, engLast>>

decVars == <<effectStates, orphans, compTimebase, media, mediaCtl, ui, drawCalls, drawnClosed,
             exp, steps, decLast, missRun, workers>>

vars == <<fbVars, tqVars, engVars, decVars>>

----------------------------------------------------------------------------
(* Bounds *)

MaxFrames == 5

FrameIds == 1..MaxFrames

NoFrame == 0

(* timebases (frames per second) the buffers are built with *)
Timebases == {1, 2, 5}

(* bufferSeconds is BufferSecondsNum / BsDen seconds *)
BsDen == 2

BufferSecondsNums == {1, 3}

FBTimes == {0, 100, 200, 400, 1000}

----------------------------------------------------------------------------
(* Arithmetic helpers *)

Abs(x) == IF x < 0 THEN -x ELSE x

(* Math.ceil(n / d) for n >= 0, d > 0 *)
Ceil(n, d) == (n + d - 1) \div d

Max2(a, b) == IF a >= b THEN a ELSE b

Min2(a, b) == IF a <= b THEN a ELSE b

SeqToSet(s) == {s[i] : i \in 1..Len(s)}

(* the sequence s of [ts, id] entries (keys unique) without the entry keyed ts *)
SeqFilterTs(s, ts) ==
    IF \E i \in 1..Len(s) : s[i].ts = ts
    THEN LET i == CHOOSE j \in 1..Len(s) : s[j].ts = ts
         IN  SubSeq(s, 1, i - 1) \o SubSeq(s, i + 1, Len(s))
    ELSE s

----------------------------------------------------------------------------
(* FrameBuffer *)

(* constructor(timebase, bufferSeconds): maxSize = ceil(timebase * bufferSeconds) *)
FB_new(timebase, bsNum) ==
    [frames |-> <<>>, insertOrder |-> <<>>,
     maxSize |-> Ceil(timebase * bsNum, BsDen), timebase |-> timebase]

FB_size(b) == Len(b.frames)

FB_keys(b) == {b.frames[i].ts : i \in 1..Len(b.frames)}

FB_ids(b) == {b.frames[i].id : i \in 1..Len(b.frames)}

FB_has(b, ts) == ts \in FB_keys(b)

FB_at(b, ts) == (CHOOSE i \in 1..Len(b.frames) : b.frames[i].ts = ts)

(* diff <= this.tolerance, tolerance = (1000 / timebase) / 2 *)
FB_within(b, diff) == 2 * b.timebase * diff <= 1000

(* add() with the eviction branch left out *)
FB_add_noEvict(b, ts, id) ==
    IF FB_has(b, ts)
    THEN [buf |-> [b EXCEPT !.frames[FB_at(b, ts)] = [ts |-> ts, id |-> id]],
          closed |-> <<b.frames[FB_at(b, ts)].id>>]
    ELSE [buf |-> [b EXCEPT !.frames = Append(b.frames, [ts |-> ts, id |-> id]),
                            !.insertOrder = Append(b.insertOrder, ts)],
          closed |-> <<>>]

(* add() evicting with insertOrder.pop() instead of insertOrder.shift() *)
FB_add_evictNewest(b, ts, id) ==
    IF FB_has(b, ts)
    THEN [buf |-> [b EXCEPT !.frames[FB_at(b, ts)] = [ts |-> ts, id |-> id]],
          closed |-> <<b.frames[FB_at(b, ts)].id>>]
    ELSE IF FB_size(b) >= b.maxSize /\ Len(b.insertOrder) > 0
         THEN LET n        == Len(b.insertOrder)
                  newestTs == b.insertOrder[n]
                  kept     == SeqFilterTs(b.frames, newestTs)
              IN  [buf |-> [b EXCEPT !.frames = Append(kept, [ts |-> ts, id |-> id]),
                                     !.insertOrder = Append(SubSeq(b.insertOrder, 1, n - 1), ts)],
                   closed |-> <<b.frames[FB_at(b, newestTs)].id>>]
         ELSE [buf |-> [b EXCEPT !.frames = Append(b.frames, [ts |-> ts, id |-> id]),
                                 !.insertOrder = Append(b.insertOrder, ts)],
               closed |-> <<>>]

(* add() closing the evicted frame without deleting its entry *)
FB_add_closeKeep(b, ts, id) ==
    IF FB_has(b, ts)
    THEN [buf |-> [b EXCEPT !.frames[FB_at(b, ts)] = [ts |-> ts, id |-> id]],
          closed |-> <<b.frames[FB_at(b, ts)].id>>]
    ELSE IF FB_size(b) >= b.maxSize /\ Len(b.insertOrder) > 0
         THEN LET oldestTs == Head(b.insertOrder)
                  hit      == FB_has(b, oldestTs)
              IN  [buf |-> [b EXCEPT !.frames = Append(b.frames, [ts |-> ts, id |-> id]),
                                     !.insertOrder = Append(Tail(b.insertOrder), ts)],
                   closed |-> IF hit THEN <<b.frames[FB_at(b, oldestTs)].id>> ELSE <<>>]
         ELSE [buf |-> [b EXCEPT !.frames = Append(b.frames, [ts |-> ts, id |-> id]),
                                 !.insertOrder = Append(b.insertOrder, ts)],
               closed |-> <<>>]

(* add(frame): replace-and-close on an existing timestamp, otherwise evict
   the head of insertOrder when full, then append.  Returns the new buffer
   and the frames close() was called on, in call order. *)
FB_add(b, ts, id) ==
    IF FB_has(b, ts)
    THEN [buf |-> [b EXCEPT !.frames[FB_at(b, ts)] = [ts |-> ts, id |-> id]],
          closed |-> <<b.frames[FB_at(b, ts)].id>>]
    ELSE IF FB_size(b) >= b.maxSize /\ Len(b.insertOrder) > 0
         THEN LET oldestTs == Head(b.insertOrder)
                  hit      == FB_has(b, oldestTs)
                  kept     == IF hit THEN SeqFilterTs(b.frames, oldestTs) ELSE b.frames
              IN  [buf |-> [b EXCEPT !.frames = Append(kept, [ts |-> ts, id |-> id]),
                                     !.insertOrder = Append(Tail(b.insertOrder), ts)],
                   closed |-> IF hit THEN <<b.frames[FB_at(b, oldestTs)].id>> ELSE <<>>]
         ELSE [buf |-> [b EXCEPT !.frames = Append(b.frames, [ts |-> ts, id |-> id]),
                                 !.insertOrder = Append(b.insertOrder, ts)],
               closed |-> <<>>]

RECURSIVE FB_scan(_, _, _, _, _)
(* the for-of loop of get(): first entry in Map order with the strictly
   smallest diff among those within tolerance *)
FB_scan(b, timestamp, i, closest, closestDiff) ==
    IF i > Len(b.frames) THEN closest
    ELSE LET diff == Abs(b.frames[i].ts - timestamp)
         IN  IF (closest = NoFrame \/ diff < closestDiff) /\ FB_within(b, diff)
             THEN FB_scan(b, timestamp, i + 1, b.frames[i].id, diff)
             ELSE FB_scan(b, timestamp, i + 1, closest, closestDiff)

(* get() with the tolerance scan left out *)
FB_get_exactOnly(b, timestamp) ==
    IF FB_has(b, timestamp) THEN b.frames[FB_at(b, timestamp)].id ELSE NoFrame

(* get(timestamp): exact hit, else closest within tolerance, else null *)
FB_get(b, timestamp) ==
    IF FB_has(b, timestamp) THEN b.frames[FB_at(b, timestamp)].id
    ELSE FB_scan(b, timestamp, 1, NoFrame, 0)

(* a clear() that empties the map without closing the frames *)
FB_clear_noClose(b) ==
    [buf |-> [b EXCEPT !.frames = <<>>, !.insertOrder = <<>>], closed |-> <<>>]

(* clear(): close every frame, empty the map and insertOrder *)
FB_clear(b) ==
    [buf |-> [b EXCEPT !.frames = <<>>, !.insertOrder = <<>>],
     closed |-> [i \in 1..Len(b.frames) |-> b.frames[i].id]]

RECURSIVE CloseAll(_, _)
(* VideoFrame.close() called on each frame of ids, in order *)
CloseAll(cc, ids) ==
    IF ids = <<>> THEN cc
    ELSE CloseAll([cc EXCEPT ![Head(ids)] = @ + 1], Tail(ids))

----------------------------------------------------------------------------
(* Effects, transitions and the active-effect query *)

(* Effect (state/types.ts): offsets start / end lie within the source media,
   start_at_position places the trimmed window on the timeline *)
Effect(id, kind, track, sap, st, en, dur) ==
    [id |-> id, kind |-> kind, track |-> track, start_at_position |-> sap,
     start |-> st, end |-> en, duration |-> dur, file_hash |-> id,
     raw_duration |-> dur \div 1000]

EffectA == Effect("a", "video", 0, 0, 0, 2000, 2000)

EffectB == Effect("b", "video", 0, 1500, 0, 2500, 3000)

EffectC == Effect("c", "image", 1, 1000, 500, 500, 3000)

EffectD == Effect("d", "video", 1, 2000, 1000, 3000, 4000)

EffectCatalog == {EffectA, EffectB, EffectC, EffectD}

MaxEffects == 3

RECURSIVE EffectLists(_)
(* the lists of at most n distinct catalog effects *)
EffectLists(n) ==
    IF n = 0 THEN {<<>>}
    ELSE LET shorter == EffectLists(n - 1)
         IN  shorter \cup
             {Append(l, e) : l \in {x \in shorter : Len(x) = n - 1},
                             e \in EffectCatalog}

DistinctIds(l) == \A i, j \in 1..Len(l) : l[i].id = l[j].id => i = j

(* a Transition joins the effect going out with the effect coming in and
   pads each of them: the outgoing effect stays visible `outgoing` ms longer,
   the incoming effect becomes visible `incoming` ms earlier *)
Transition(outId, inId, inPad, outPad) ==
    [outgoing_id |-> outId, incoming_id |-> inId, incoming |-> inPad, outgoing |-> outPad]

TransitionSets ==
    { {},
      {Transition("a", "b", 250, 250)},
      {Transition("b", "d", 100, 400)} }

NoTransition == [outgoing_id |-> "", incoming_id |-> "", incoming |-> 0, outgoing |-> 0]

(* transitionManager.getTransitionByEffect(effect) *)
getTransitionByEffect(trs, effect) ==
    IF \E t \in trs : t.outgoing_id = effect.id \/ t.incoming_id = effect.id
    THEN CHOOSE t \in trs : t.outgoing_id = effect.id \/ t.incoming_id = effect.id
    ELSE NoTransition

(* transitionManager.getTransitionDurationPerEffect(transition, effect) *)
getTransitionDurationPerEffect(transition, effect) ==
    [incoming |-> IF transition.incoming_id = effect.id THEN transition.incoming ELSE 0,
     outgoing |-> IF transition.outgoing_id = effect.id THEN transition.outgoing ELSE 0]

(* the filter predicate of get_effects_relative_to_timecode with both
   comparisons strict *)
is_active_strict(trs, effect, timecode) ==
    LET p == getTransitionDurationPerEffect(getTransitionByEffect(trs, effect), effect)
    IN  /\ effect.start_at_position - p.incoming < timecode
        /\ timecode < effect.start_at_position + (effect.end - effect.start) + p.outgoing

(* the filter predicate of Compositor.get_effects_relative_to_timecode *)
is_active(trs, effect, timecode) ==
    LET p == getTransitionDurationPerEffect(getTransitionByEffect(trs, effect), effect)
    IN  /\ effect.start_at_position - p.incoming <= timecode
        /\ timecode <= effect.start_at_position + (effect.end - effect.start) + p.outgoing

(* the active effects with the highest track first *)
get_effects_relative_to_timecode_byTrackDesc(trs, effs, timecode) ==
    LET act == SelectSeq(effs, LAMBDA e : is_active(trs, e, timecode))
        RECURSIVE Desc(_)
        Desc(s) == IF s = <<>> THEN <<>>
                   ELSE LET m == CHOOSE i \in 1..Len(s) :
                                    \A k \in 1..Len(s) :
                                        \/ s[k].track < s[i].track
                                        \/ (s[k].track = s[i].track /\ i <= k)
                        IN  <<s[m]>> \o Desc(SubSeq(s, 1, m - 1) \o SubSeq(s, m + 1, Len(s)))
    IN  Desc(act)

(* Compositor.get_effects_relative_to_timecode(effects, timecode) *)
get_effects_relative_to_timecode(trs, effs, timecode) ==
    SelectSeq(effs, LAMBDA e : is_active(trs, e, timecode))

Timecodes == {0, 250, 999, 1000, 1250, 1400, 1500, 1700, 1900, 2000, 2250, 2251, 3400, 4000, 4001}

----------------------------------------------------------------------------
(* Compositor and engine API *)

MaxNow == 1500

ClockSteps == {500, 1000}

SeekTimes == {0, 1700}

(* new Compositor(actions): fields as initialised by the class, #app created
   by the constructor's first access to this.app *)
(* no seek(timecode, true) of the preview panel is pending *)
NoSeek == [pending |-> FALSE, t |-> 0, composed |-> FALSE, shown |-> {}]

NewCompositor ==
    [is_playing |-> FALSE, last_time |-> 0, pause_time |-> 0, timecode |-> 0,
     played |-> {}, app |-> "live", recreated |-> FALSE, destroyed |-> FALSE,
     raf |-> FALSE, tick_at |-> 0, seek_wait |-> NoSeek]

(* createEngine up to the construction of the controllers: instances set,
   non_historical_state timecode 0 and is_playing false *)
NewEngine == [alive |-> TRUE, timecode |-> 0, is_playing |-> FALSE]

Outcome(c, e, threw, warned, rendered) ==
    [c |-> c, e |-> e, threw |-> threw, warned |-> warned, rendered |-> rendered]

(* get app(): a destroyed compositor warns and returns the kept app, or
   throws when there is none *)
app_getter(c) ==
    IF c.destroyed
    THEN [threw |-> c.app = "none", warned |-> TRUE]
    ELSE [threw |-> FALSE, warned |-> FALSE]

ActiveIds(trs, effs, t) ==
    {e.id : e \in SeqToSet(get_effects_relative_to_timecode(trs, effs, t))}

(* compose_effects without the #recreated gate *)
compose_effects_ungated(c, e, trs, effs, timecode) ==
    LET c1 == [c EXCEPT !.timecode = timecode, !.played = ActiveIds(trs, effs, timecode)]
        a  == app_getter(c1)
    IN  Outcome(c1, e, a.threw, a.warned, ~ a.threw)

(* compose_effects(effects, timecode): gated by #recreated; sets timecode,
   rebuilds currently_played_effects, then reaches this.app
   (update_canvas_objects, stage.sortChildren, app.render) *)
compose_effects(c, e, trs, effs, timecode) ==
    IF ~ c.recreated THEN Outcome(c, e, FALSE, FALSE, FALSE)
    ELSE LET c1 == [c EXCEPT !.timecode = timecode,
                             !.played = ActiveIds(trs, effs, timecode)]
             a  == app_getter(c1)
         IN  Outcome(c1, e, a.threw, a.warned, ~ a.threw)

(* omnislate.context.state / getState(): the default state, with no effects,
   once the instances are cleared *)
StateEffects(e, effs) == IF e.alive THEN effs ELSE <<>>

StateTimecode(e) == IF e.alive THEN e.timecode ELSE 0

(* #on_playing without the update of #pause_time while paused *)
on_playing_noAnchor(c, e, trs, effs, t) ==
    IF c.destroyed THEN Outcome([c EXCEPT !.raf = FALSE], e, FALSE, FALSE, FALSE)
    ELSE IF ~ c.is_playing
    THEN Outcome([c EXCEPT !.raf = TRUE, !.tick_at = t], e, FALSE, FALSE, FALSE)
    ELSE LET nw      == t - c.pause_time
             elapsed == nw - c.last_time
             c1      == [c EXCEPT !.last_time = nw, !.tick_at = t]
             e1      == [e EXCEPT !.timecode = @ + elapsed]
             r       == compose_effects(c1, e1, trs, StateEffects(e1, effs), StateTimecode(e1))
         IN  Outcome([r.c EXCEPT !.raf = ~ r.threw], r.e, r.threw, r.warned, r.rendered)

(* #on_playing without the #destroyed test *)
on_playing_unguarded(c, e, trs, effs, t) ==
    IF ~ c.is_playing
    THEN Outcome([c EXCEPT !.pause_time = t - c.last_time, !.raf = TRUE, !.tick_at = t],
                 e, FALSE, FALSE, FALSE)
    ELSE LET nw      == t - c.pause_time
             elapsed == nw - c.last_time
             c1      == [c EXCEPT !.last_time = nw, !.tick_at = t]
             e1      == [e EXCEPT !.timecode = @ + elapsed]
             r       == compose_effects(c1, e1, trs, StateEffects(e1, effs), StateTimecode(e1))
         IN  Outcome([r.c EXCEPT !.raf = ~ r.threw], r.e, r.threw, r.warned, r.rendered)

(* #on_playing: the animation-frame callback; tick_at notes the
   performance.now() of the call *)
on_playing(c, e, trs, effs, t) ==
    IF c.destroyed THEN Outcome([c EXCEPT !.raf = FALSE], e, FALSE, FALSE, FALSE)
    ELSE IF ~ c.is_playing
    THEN Outcome([c EXCEPT !.pause_time = t - c.last_time, !.raf = TRUE, !.tick_at = t],
                 e, FALSE, FALSE, FALSE)
    ELSE LET nw      == t - c.pause_time
             elapsed == nw - c.last_time
             c1      == [c EXCEPT !.last_time = nw, !.tick_at = t]
             e1      == [e EXCEPT !.timecode = @ + elapsed]
             r       == compose_effects(c1, e1, trs, StateEffects(e1, effs), StateTimecode(e1))
         IN  Outcome([r.c EXCEPT !.raf = ~ r.threw], r.e, r.threw, r.warned, r.rendered)

(* Compositor.destroy() *)
compositor_destroy(c) ==
    [c EXCEPT !.destroyed = TRUE, !.is_playing = FALSE, !.raf = FALSE,
              !.played = {}, !.app = "none"]

PublicOps == {"play", "pause", "togglePlayback", "seek", "getState",
              "compose_effects", "clear", "app"}

----------------------------------------------------------------------------
(* Decoder, decode worker and demuxer *)

MaxOrphans == 1

MaxDraws == 2

EffectV == Effect("v", "video", 0, 0, 0, 3000, 3000)

EffectW == Effect("w", "video", 1, 1000, 1000, 3000, 4000)

(* a source of one frame, on the track above EffectV *)
EffectX == Effect("x", "video", 1, 0, 0, 1000, 1000)

DecTimes == {0, 500, 2000}

ExportTimes == {500}

RECURSIVE SortedSeq(_)
(* the numbers of S in increasing order *)
SortedSeq(S) ==
    IF S = {} THEN <<>>
    ELSE LET m == CHOOSE x \in S : \A y \in S : x <= y
         IN  <<m>> \o SortedSeq(S \ {m})

(* the presentation timestamps (ms) of the frames of the effect's file: one
   per second of its raw duration *)
SrcPts(effect) == {1000 * k : k \in 0..(effect.raw_duration - 1)}

(* webdemuxer.readAVPacket(startSeconds, endSeconds) as called by demuxer():
   one second earlier than start and one second later than end; a start or
   end of 0 is falsy and leaves that side open *)
Packets(effect, start, end) ==
    SortedSeq({p \in SrcPts(effect) :
                  /\ (start # 0 => p >= start - 1000)
                  /\ (end # 0 => p <= end + 1000)})

(* a message to the worker *)
Msg(action, pts) ==
    [action |-> action, start |-> 0, end |-> 0, starting_timestamp |-> 0,
     timebase |-> 0, pts |-> pts]

(* a message from the worker *)
Post(action, ts) == [action |-> action, ts |-> ts]

(* decode_worker.ts module state before any message; posted is the history
   of the timestamps of the new-frame messages the worker has posted; closed
   is decoder.state = "closed"; interval is false once cleanup has cleared
   the timer; threw notes an exception that left the message listener and
   cleanups counts the cleanup messages handled *)
NewWorker ==
    [timestamp |-> 0, start |-> 0, end |-> 0, timestamp_end |-> 0, timebase |-> 0,
     lastProcessedTimestamp |-> 0, isConfigured |-> FALSE, flushing |-> FALSE,
     endSent |-> FALSE, queue |-> <<>>, eof |-> FALSE, posted |-> <<>>,
     failed |-> FALSE, closed |-> FALSE, interval |-> TRUE, threw |-> FALSE,
     cleanups |-> 0]

(* a cleanup handler that calls decoder.close() outside a try: close() on a
   closed decoder throws and clearInterval is not reached *)
cleanup_noCatch(w) ==
    IF w.closed THEN [w EXCEPT !.threw = TRUE, !.cleanups = @ + 1]
    ELSE [w EXCEPT !.closed = TRUE, !.queue = <<>>, !.interval = FALSE, !.cleanups = @ + 1]

(* the cleanup branch of the message listener: try { decoder.close() }
   catch {}; clearInterval(interval). close() drops the pending decodes *)
cleanup(w) ==
    [w EXCEPT !.closed = TRUE, !.queue = <<>>, !.interval = FALSE, !.cleanups = @ + 1]

(* demuxer(): no run; queue is the decodeQueueSize of the last dequeue message
   and delay the pacing delay slept after the last chunk, in 1/queueLimit ms *)
NoDemuxer == [pc |-> "none", i |-> 0, pkts |-> <<>>, queue |-> 0, delay |-> 0]

queueLimit == 100

maxDelay == 50

minDelay == 0

(* calculateDynamicDelay with no upper clamp *)
calculateDynamicDelay_unclamped(queueSize) ==
    Max2(minDelay * queueLimit, queueSize * maxDelay)

(* calculateDynamicDelay(queueSize) = min(maxDelay, max(minDelay,
   queueSize / queueLimit * maxDelay)), in units of 1/queueLimit ms *)
calculateDynamicDelay(queueSize) ==
    Min2(maxDelay * queueLimit, Max2(minDelay * queueLimit, queueSize * maxDelay))

(* an effect id without an entry in #effectStates *)
NoState ==
    [registered |-> FALSE, alive |-> FALSE, buffer |-> FB_new(1, BsDen),
     isDecoding |-> FALSE, inbox |-> <<>>, outbox |-> <<>>, w |-> NewWorker,
     dmx |-> NoDemuxer]

(* processFrame with the timeline timestamp left where it is on every post *)
processFrame_noAdvance(w, pts) ==
    [w |-> [w EXCEPT !.lastProcessedTimestamp = pts], posts |-> <<w.timestamp, w.timestamp>>]

(* processFrame(currentFrame, targetFrameInterval): the worker state after it
   and the timestamps of the new-frame messages it posts, in order *)
processFrame(w, pts) ==
    LET iv == 1000 \div w.timebase
    IN  IF w.lastProcessedTimestamp = 0
        THEN [w |-> [w EXCEPT !.timestamp = @ + iv, !.lastProcessedTimestamp = pts],
              posts |-> <<w.timestamp>>]
        ELSE LET lp  == w.lastProcessedTimestamp
                 k   == IF pts >= lp + iv THEN (pts - lp) \div iv ELSE 0
                 lp1 == lp + k * iv
                 ts1 == w.timestamp + k * iv
                 dup == [j \in 1..k |-> w.timestamp + (j - 1) * iv]
             IN  IF pts >= lp1
                 THEN [w |-> [w EXCEPT !.timestamp = ts1 + iv,
                                       !.lastProcessedTimestamp = lp1 + iv],
                       posts |-> Append(dup, ts1)]
                 ELSE [w |-> [w EXCEPT !.timestamp = ts1, !.lastProcessedTimestamp = lp1],
                       posts |-> dup]

(* whether the VideoDecoder output callback closes the frame it was given:
   frame.close() for a frame before start; processFrame ends in
   currentFrame.close() except in its first-frame branch, which returns
   before it *)
outputCloses(w, pts) ==
    IF pts < w.start THEN TRUE ELSE w.lastProcessedTimestamp # 0

NoExport == [active |-> FALSE, t |-> 0, list |-> <<>>, stale |-> FALSE, waited |-> 0]

(* the controller-side state a Decoder call works on: #effectStates, the
   demuxer promises left pending by terminated workers, the pending
   get_and_draw_decoded_frame call, the close and draw counts of the frames,
   and the log of the steps the call takes *)
World(es, orph, ex, cc, dc, bad) ==
    [es |-> es, orphans |-> orph, exp |-> ex, cc |-> cc, dc |-> dc, bad |-> bad,
     steps |-> <<>>, overflow |-> FALSE, workers |-> [id \in DOMAIN es |-> 0]]

Step(kind, eff) == [kind |-> kind, eff |-> eff]

Pending(dmx) == dmx.pc \in {"load", "read"}

(* the world once the worker of id is gone: the messages queued in either
   direction are discarded with it, its demuxer promise stays pending, and
   a #waitForFrame polling this state's buffer can never hit again *)
WorkerGone(W, id) ==
    [W EXCEPT !.es[id].alive = FALSE, !.es[id].inbox = <<>>, !.es[id].outbox = <<>>,
              !.es[id].w = NewWorker, !.es[id].dmx = NoDemuxer,
              !.workers[id] = IF @ > 0 THEN @ - 1 ELSE 0,
              !.orphans[id] = IF Pending(W.es[id].dmx) THEN @ + 1 ELSE @,
              !.overflow = @ \/ (Pending(W.es[id].dmx) /\ W.orphans[id] >= MaxOrphans),
              !.exp.stale = @ \/ (W.exp.active /\ Head(W.exp.list).id = id)]

(* the teardown with the worker terminated before its buffer is cleared *)
Teardown_terminateFirst(W, id) ==
    LET r  == FB_clear(W.es[id].buffer)
        W1 == WorkerGone(W, id)
    IN  [W1 EXCEPT !.es[id].buffer = r.buf, !.cc = CloseAll(@, r.closed),
                   !.steps = @ \o <<Step("cleanup", id), Step("terminate", id),
                                    Step("release", id)>>]

(* state.buffer.clear(); worker.postMessage({action: "cleanup"});
   worker.terminate().  terminate() ends the worker and discards the messages
   queued in either direction, the cleanup message included; no listener is
   removed, so it is the step that stops delivery to the controller. *)
Teardown(W, id) ==
    LET r  == FB_clear(W.es[id].buffer)
        W1 == WorkerGone(W, id)
    IN  [W1 EXCEPT !.es[id].buffer = r.buf, !.cc = CloseAll(@, r.closed),
                   !.steps = @ \o <<Step("release", id), Step("cleanup", id),
                                    Step("terminate", id)>>]

(* this.#effectStates.delete(effectId) *)
Delete(W, id) ==
    [W EXCEPT !.es[id] = NoState, !.steps = Append(@, Step("delete", id))]

(* stop_buffering(effectId) *)
stop_buffering(W, id) ==
    IF ~ W.es[id].registered THEN W ELSE Delete(Teardown(W, id), id)

(* a lookup of the file that finds one for every hash *)
FileFound_always(effect, med) == TRUE

(* const file = this.media.get(effect.file_hash)?.file; if (!file) *)
FileFound(effect, med) == effect.file_hash \in med

(* a worker that is never sent demux *)
postDemux_never(fileOk, demux) == <<>>

(* the messages #initWorkerForEffect posts to its new worker: demux, unless
   the file was not found and it returned before *)
postDemux(fileOk, demux) == IF fileOk THEN <<demux>> ELSE <<>>

(* #initWorkerForEffect(effect, startTimestamp) *)
initWorkerForEffect(W, effect, startTimestamp, trs, tb, med) ==
    LET pads   == getTransitionDurationPerEffect(getTransitionByEffect(trs, effect), effect)
        fileOk == FileFound(effect, med)
        effectEnd == IF effect.end = effect.duration
                     THEN effect.raw_duration * 1000
                     ELSE effect.end + pads.outgoing
        effectStart == effect.start - pads.incoming
        effectRelativeStart == startTimestamp - effect.start_at_position + effect.start
        demuxerStart == Max2(effectStart, effectRelativeStart)
        demux  == [Msg("demux", 0) EXCEPT !.start = demuxerStart, !.end = effectEnd,
                       !.starting_timestamp = effectRelativeStart, !.timebase = tb]
        state  == [registered |-> TRUE, alive |-> TRUE, buffer |-> FB_new(tb, 2 * BsDen),
                   isDecoding |-> TRUE,
                   inbox |-> postDemux(fileOk, demux),
                   outbox |-> <<>>, w |-> NewWorker,
                   dmx |-> IF fileOk
                           THEN [pc |-> "load", i |-> 0, queue |-> 0, delay |-> 0,
                                 pkts |-> Packets(effect, demuxerStart, effectEnd)]
                           ELSE NoDemuxer]
    IN  [W EXCEPT !.es[effect.id] = state,
                  !.workers[effect.id] = @ + 1,
                  !.steps = Append(@, Step("create", effect.id))]

(* start_prebuffer() without its #effectStates.has(effect.id) test *)
start_prebuffer_unguarded(W, effect, startTimestamp, trs, tb, med) ==
    initWorkerForEffect(W, effect, startTimestamp, trs, tb, med)

(* start_prebuffer(effect, startTimestamp) *)
start_prebuffer(W, effect, startTimestamp, trs, tb, med) ==
    IF W.es[effect.id].registered THEN W
    ELSE initWorkerForEffect(W, effect, startTimestamp, trs, tb, med)

(* a lookup time that is the timeline timestamp itself *)
EffectTime_timeline(effect, timestamp) == timestamp

(* the effect-relative media time of a timeline timestamp *)
EffectTime(effect, timestamp) == timestamp - effect.start_at_position + effect.start

(* the buffer test of seek() with an exact-timestamp match only *)
SeekHit_exact(b, effectTime) == FB_has(b, effectTime)

(* seek(): const frameInBuffer = state.buffer.get(effectTime); if (frameInBuffer) *)
SeekHit(b, effectTime) == FB_get(b, effectTime) # NoFrame

(* seek() on a miss: clear the buffer, clean up and terminate the worker,
   delete the state, then #initWorkerForEffect(effect, newTimestamp) *)
seek_restart(W, effect, newTimestamp, trs, tb, med) ==
    initWorkerForEffect(Delete(Teardown(W, effect.id), effect.id),
                        effect, newTimestamp, trs, tb, med)

(* the body of the for loop of seek(effects, newTimestamp) for one effect *)
seek_one(W, effect, newTimestamp, trs, tb, med) ==
    IF ~ W.es[effect.id].registered
    THEN initWorkerForEffect(W, effect, newTimestamp, trs, tb, med)
    ELSE IF SeekHit(W.es[effect.id].buffer, EffectTime(effect, newTimestamp))
    THEN W
    ELSE seek_restart(W, effect, newTimestamp, trs, tb, med)

RECURSIVE seek(_, _, _, _, _, _)
(* seek(effects, newTimestamp) *)
seek(W, effs, newTimestamp, trs, tb, med) ==
    IF effs = <<>> THEN W
    ELSE seek(seek_one(W, Head(effs), newTimestamp, trs, tb, med),
              Tail(effs), newTimestamp, trs, tb, med)

RECURSIVE reset_each(_, _)
(* reset(): for (const [, state] of this.#effectStates): clear the buffer,
   clean up and terminate the worker *)
reset_each(W, ids) ==
    IF ids = {} THEN W
    ELSE LET id == CHOOSE x \in ids : TRUE
         IN  reset_each(IF W.es[id].registered THEN Teardown(W, id) ELSE W, ids \ {id})

(* reset(): ... then this.#effectStates.clear() *)
reset(W) ==
    LET W1 == reset_each(W, DOMAIN W.es)
    IN  [W1 EXCEPT !.es = [id \in DOMAIN W.es |-> NoState],
                   !.steps = Append(@, Step("clear", ""))]

(* a pause that drops every decode context *)
pause_videos_reset(W) == reset(W)

(* videoManager.pause_videos(), run by the is_playing reaction on pause: an
   empty method, the Decoder is not told *)
pause_videos(W) == W

RECURSIVE InsertByTrack(_, _)
InsertByTrack(sorted, e) ==
    IF sorted = <<>> THEN <<e>>
    ELSE IF e.track < Head(sorted).track THEN <<e>> \o sorted
    ELSE <<Head(sorted)>> \o InsertByTrack(Tail(sorted), e)

RECURSIVE sort_effects_by_track(_)
(* sort_effects_by_track(effects): ascending track, stable *)
sort_effects_by_track(effs) ==
    IF effs = <<>> THEN <<>>
    ELSE InsertByTrack(sort_effects_by_track(SubSeq(effs, 1, Len(effs) - 1)), effs[Len(effs)])

(* the video effects active at timestamp, in track order *)
VideoEffectsAt(trs, effs, timestamp) ==
    sort_effects_by_track(
        SelectSeq(get_effects_relative_to_timecode(trs, effs, timestamp),
                  LAMBDA e : e.kind = "video"))

(* videoManager.draw_decoded_frame(effect, frame) on frame f *)
draw_decoded_frame(W, f) ==
    [W EXCEPT !.dc[f] = @ + 1, !.bad = @ \/ W.cc[f] > 0]

(* the body of the for loop of draw_available_frames for one effect *)
draw_one(W, effect, timestamp, trs, tb, med) ==
    LET W1 == start_prebuffer(W, effect, timestamp, trs, tb, med)
        f  == FB_get(W1.es[effect.id].buffer, EffectTime(effect, timestamp))
    IN  IF f # NoFrame THEN draw_decoded_frame(W1, f) ELSE W1

(* a draw_available_frames that waits for the frame of its first effect *)
draw_available_frames_waiting(W, effs, timestamp, trs, tb, med) ==
    IF effs = <<>> THEN W
    ELSE [start_prebuffer(W, Head(effs), timestamp, trs, tb, med)
             EXCEPT !.exp = [active |-> TRUE, t |-> timestamp, list |-> effs,
                             stale |-> FALSE, waited |-> 0]]

RECURSIVE draw_available_frames(_, _, _, _, _, _)
(* draw_available_frames(effects, timestamp) over the active video effects *)
draw_available_frames(W, effs, timestamp, trs, tb, med) ==
    IF effs = <<>> THEN W
    ELSE draw_available_frames(draw_one(W, Head(effs), timestamp, trs, tb, med),
                               Tail(effs), timestamp, trs, tb, med)

RECURSIVE export_run(_, _, _, _, _, _)
(* the for loop of get_and_draw_decoded_frame from its current effect up to
   the first #waitForFrame whose first buffer.get misses *)
export_run(W, effs, timestamp, trs, tb, med) ==
    IF effs = <<>> THEN [W EXCEPT !.exp = NoExport]
    ELSE LET effect == Head(effs)
             W1 == start_prebuffer(W, effect, timestamp, trs, tb, med)
             f  == FB_get(W1.es[effect.id].buffer, EffectTime(effect, timestamp))
         IN  IF f # NoFrame
             THEN export_run(draw_decoded_frame(W1, f), Tail(effs), timestamp, trs, tb, med)
             ELSE [W1 EXCEPT !.exp = [active |-> TRUE, t |-> timestamp, list |-> effs,
                                      stale |-> FALSE, waited |-> 0]]

----------------------------------------------------------------------------
(* Media controller *)

MaxImports == 2

MaxWaiters == 2

ImportIds == 1..MaxImports

WaiterIds == 1..MaxWaiters

(* the file an import call is given: its hash *)
ImportHash(i) == IF i = 1 THEN "v" ELSE "w"

(* an import_file_with_metadata call: where it stands, and whether it was
   given isProxy === false with a provided hash *)
NoImport == [pc |-> "idle", del |-> FALSE]

(* new Media(): #files_ready = false, #get_imported_files() under way *)
NewMedia ==
    [files_ready |-> FALSE, loaded |-> FALSE,
     imports |-> [i \in ImportIds |-> NoImport],
     waiters |-> [k \in WaiterIds |-> "none"]]

(* import_file_with_metadata up to its first await: #files_ready = false;
   then it awaits getVideoFileMetadata when it was given a video without
   metadata, delete_file when isProxy === false with a provided hash, and
   else issues the count request *)
import_start(m, i, hasMeta, del) ==
    [m EXCEPT !.files_ready = FALSE,
              !.imports[i] = [pc |-> IF ~ hasMeta THEN "meta"
                                     ELSE IF del THEN "delete" ELSE "count",
                              del |-> del]]

(* check_if_duplicate.onsuccess and .onerror both end in
   #files_ready = true *)
import_settle(m, i, pc) ==
    [m EXCEPT !.files_ready = TRUE, !.imports[i].pc = pc]

(* an import call that is between its first line and its completion
   handler *)
Running(m, i) == m.imports[i].pc \in {"meta", "delete", "count"}

(* an import call that has not yet returned to its caller *)
Awaiting(m, i) == m.imports[i].pc \in {"meta", "delete"}

----------------------------------------------------------------------------
(* Editor side: playback store and the preview panel's effect sync *)

MaxRuns == 2

RunIds == 1..MaxRuns

(* a syncEffects() call: idle, or waiting in media.are_files_ready() with the
   effects it computed *)
NoRun == [pc |-> "none", effs |-> {}]

(* usePlaybackStore after create(); the empty mediaIdToHashMap; the
   PreviewPanel effect about to make its first syncEffects() call *)
NewUi ==
    [isPlaying |-> FALSE, engineControlsTime |-> FALSE,
     mapped |-> {}, due |-> TRUE, runs |-> [r \in RunIds |-> NoRun]]

(* usePlaybackStore.toggle(): pause() when isPlaying, else play() *)
store_toggle(u) ==
    [u EXCEPT !.isPlaying = ~ u.isPlaying, !.engineControlsTime = ~ u.isPlaying]

----------------------------------------------------------------------------
(* Variables a specification leaves alone *)

DecIdle ==
    /\ effectStates = [id \in {} |-> NoState]
    /\ orphans = [id \in {} |-> 0]
    /\ compTimebase = 1
    /\ media = {}
    /\ drawCalls = [f \in FrameIds |-> 0]
    /\ drawnClosed = FALSE
    /\ exp = NoExport
    /\ steps = <<>>
    /\ decLast = [op |-> "none", t |-> 0]
    /\ missRun = [id \in {} |-> 0]
    /\ workers = [id \in {} |-> 0]
    /\ mediaCtl = NewMedia
    /\ ui = NewUi

EngIdle ==
    /\ comp = NewCompositor
    /\ eng = NewEngine
    /\ now = 0
    /\ recreating = FALSE
    /\ recreateDone = FALSE
    /\ engLast = [op |-> "none", threw |-> FALSE, warned |-> FALSE, rendered |-> FALSE]

FBIdle ==
    /\ fb = FB_new(1, BsDen)
    /\ fbArgs = [timebase |-> 1, bsNum |-> BsDen]
    /\ fbLast = [op |-> "none", ts |-> 0, ret |-> NoFrame]
    /\ closeCalls = [f \in FrameIds |-> 0]
    /\ nextId = 1

TQIdle ==
    /\ effects = <<>>
    /\ transitions = {}
    /\ tqLast = [timecode |-> 0, result |-> <<>>]

----------------------------------------------------------------------------
(* Specification SpecFB: one FrameBuffer driven by arbitrary add / get /
   clear calls *)

InitFB ==
    /\ TQIdle
    /\ EngIdle
    /\ DecIdle
    /\ \E tb \in Timebases, bs \in BufferSecondsNums :
          /\ fb = FB_new(tb, bs)
          /\ fbArgs = [timebase |-> tb, bsNum |-> bs]
    /\ fbLast = [op |-> "none", ts |-> 0, ret |-> NoFrame]
    /\ closeCalls = [f \in FrameIds |-> 0]
    /\ nextId = 1

FBAdd(ts) ==
    /\ nextId <= MaxFrames
    /\ LET r == FB_add(fb, ts, nextId)
       IN  /\ fb' = r.buf
           /\ closeCalls' = CloseAll(closeCalls, r.closed)
           /\ fbLast' = [op |-> "add", ts |-> ts,
                         ret |-> IF r.closed = <<>> THEN NoFrame ELSE r.closed[1]]
    /\ nextId' = nextId + 1
    /\ UNCHANGED <<fbArgs, tqVars, engVars, decVars>>

FBGet(ts) ==
    /\ fbLast' = [op |-> "get", ts |-> ts, ret |-> FB_get(fb, ts)]
    /\ UNCHANGED <<fb, fbArgs, closeCalls, nextId, tqVars, engVars, decVars>>

FBClear ==
    /\ LET r == FB_clear(fb)
       IN  /\ fb' = r.buf
           /\ closeCalls' = CloseAll(closeCalls, r.closed)
    /\ fbLast' = [op |-> "clear", ts |-> 0, ret |-> NoFrame]
    /\ UNCHANGED <<fbArgs, nextId, tqVars, engVars, decVars>>

NextFB ==
    \/ \E ts \in FBTimes : FBAdd(ts)
    \/ \E ts \in FBTimes : FBGet(ts)
    \/ FBClear

SpecFB == InitFB /\ [][NextFB]_vars

----------------------------------------------------------------------------
(* Claims on the FrameBuffer *)

(* C2: after any sequence of add, get and clear calls the buffer holds at
   most ceil(timebase * bufferSeconds) frames.  n <= ceil(x) is n < x + 1,
   stated on the constructor arguments without the integer ceiling. *)
C2_CapacityBound ==
    BsDen * FB_size(fb) < fbArgs.timebase * fbArgs.bsNum + BsDen

(* C2 witness: an add has just evicted from a full buffer, and the buffer is
   full again *)
C2_Witness ==
    /\ fbLast.op = "add"
    /\ fbLast.ret # NoFrame
    /\ ~ (\E i \in 1..Len(fb.frames) : fb.frames[i].ts = fbLast.ts /\ fb.frames[i].id = fbLast.ret)
    /\ FB_size(fb) = fb.maxSize
    /\ fb.maxSize >= 2
    /\ BsDen * fb.maxSize # fbArgs.timebase * fbArgs.bsNum

(* the step taken is add(ts) of a timestamp not yet buffered, on a full buffer *)
AddNewToFull ==
    /\ nextId' = nextId + 1
    /\ ~ FB_has(fb, fbLast'.ts)
    /\ FB_size(fb) >= fb.maxSize

(* such a step drops exactly the first entry of the Map (the oldest
   inserted), keeps every other entry in order, appends the new one, calls
   close() once on the dropped frame, which was open, and on nothing else *)
EvictsOldestOnce ==
    LET old == fb.frames[1]
    IN  /\ fb'.frames = Append(Tail(fb.frames), [ts |-> fbLast'.ts, id |-> nextId])
        /\ closeCalls[old.id] = 0
        /\ closeCalls' = [closeCalls EXCEPT ![old.id] = 1]
        /\ \A i \in 1..Len(fb'.frames) : closeCalls'[fb'.frames[i].id] = 0

RECURSIVE InsertSequential(_, _, _, _)
(* frames k..n added in order, frame k at timestamp 40 * k; the result is
   the buffer and every frame close() was called on *)
InsertSequential(b, closed, k, n) ==
    IF k > n THEN [buf |-> b, closed |-> closed]
    ELSE LET r == FB_add(b, 40 * k, k)
             c == closed \o r.closed
         IN  IF Len(r.buf.frames) > 0 /\ Len(c) >= 0
             THEN InsertSequential(r.buf, c, k + 1, n)
             ELSE [buf |-> r.buf, closed |-> c]

(* timebase 25, bufferSeconds 5, 130 sequential frames,
   inserted in three runs *)
Scenario45 == InsertSequential(FB_new(25, 5 * BsDen), <<>>, 1, 45)

Scenario90 == InsertSequential(Scenario45.buf, Scenario45.closed, 46, 90)

Scenario130 == InsertSequential(Scenario90.buf, Scenario90.closed, 91, 130)

Scenario130Holds ==
    /\ Scenario130.buf.maxSize = 125
    /\ Scenario130.buf.frames = [i \in 1..125 |-> [ts |-> 40 * (i + 5), id |-> i + 5]]
    /\ Scenario130.closed = <<1, 2, 3, 4, 5>>

(* C3: adding a frame with a new timestamp to a full buffer removes exactly
   the oldest-inserted entry and closes its frame exactly once while the
   retained frames stay open; with timebase 25 and bufferSeconds 5, 130
   sequential frames leave frames 6..130 buffered and 1..5 released. *)
C3_EvictOldest ==
    /\ [][AddNewToFull => EvictsOldestOnce]_vars
    /\ []Scenario130Holds

(* C3 witness: an add of a new timestamp has evicted the head entry of a
   buffer holding at least two frames *)
C3_Witness ==
    /\ fbLast.op = "add"
    /\ fbLast.ret # NoFrame
    /\ closeCalls[fbLast.ret] = 1
    /\ fbLast.ret \notin FB_ids(fb)
    /\ FB_size(fb) >= 2
    /\ fb.frames[Len(fb.frames)].ts = fbLast.ts


(* the positions of the buffered entries within half a frame interval of
   the timestamp asked for *)
InTolerance(ts) ==
    {i \in 1..Len(fb.frames) : 2 * fbArgs.timebase * Abs(fb.frames[i].ts - ts) <= 1000}

(* C13 as stated: get returns the single entry within the tolerance window
   when there is one, and a miss otherwise. *)
C13_Original ==
    fbLast.op = "get" =>
        IF Cardinality(InTolerance(fbLast.ts)) = 1
        THEN \E i \in InTolerance(fbLast.ts) : fbLast.ret = fb.frames[i].id
        ELSE fbLast.ret = NoFrame

(* C13: get misses exactly when no buffered entry lies within half a frame
   interval of the timestamp; otherwise it returns one buffered entry, the
   closest of those within tolerance and, among equally close ones, the one
   inserted first. *)
C13_ClosestInTolerance ==
    fbLast.op = "get" =>
        IF InTolerance(fbLast.ts) = {}
        THEN fbLast.ret = NoFrame
        ELSE \E i \in InTolerance(fbLast.ts) :
                /\ fbLast.ret = fb.frames[i].id
                /\ \A j \in InTolerance(fbLast.ts) :
                      \/ Abs(fb.frames[i].ts - fbLast.ts) < Abs(fb.frames[j].ts - fbLast.ts)
                      \/ /\ Abs(fb.frames[i].ts - fbLast.ts) = Abs(fb.frames[j].ts - fbLast.ts)
                         /\ i <= j

(* a get with no exact match returned one of two equally close entries *)
C13_Witness ==
    /\ fbLast.op = "get"
    /\ ~ FB_has(fb, fbLast.ts)
    /\ fbLast.ret # NoFrame
    /\ \E i, j \in InTolerance(fbLast.ts) :
          /\ i < j
          /\ fbLast.ret = fb.frames[i].id
          /\ Abs(fb.frames[i].ts - fbLast.ts) = Abs(fb.frames[j].ts - fbLast.ts)
----------------------------------------------------------------------------
(* Specification SpecTQ: the active-effect query over every effect list of
   the catalog, transition set and timecode *)

InitTQ ==
    /\ FBIdle
    /\ EngIdle
    /\ DecIdle
    /\ effects \in {l \in EffectLists(MaxEffects) : DistinctIds(l)}
    /\ transitions \in TransitionSets
    /\ tqLast = [timecode |-> 0, result |-> <<>>]

Query(t) ==
    /\ tqLast' = [timecode |-> t,
                  result |-> get_effects_relative_to_timecode(transitions, effects, t)]
    /\ UNCHANGED <<effects, transitions, fbVars, engVars, decVars>>

NextTQ == \E t \in Timecodes : Query(t)

SpecTQ == InitTQ /\ [][NextTQ]_vars

(* the pads of effect e: those of a transition referencing it, 0 otherwise *)
PadIn(e) ==
    IF \E t \in transitions : t.incoming_id = e.id
    THEN (CHOOSE t \in transitions : t.incoming_id = e.id).incoming ELSE 0

PadOut(e) ==
    IF \E t \in transitions : t.outgoing_id = e.id
    THEN (CHOOSE t \in transitions : t.outgoing_id = e.id).outgoing ELSE 0

InWindow(e, t) ==
    /\ e.start_at_position - PadIn(e) <= t
    /\ t <= e.start_at_position + (e.end - e.start) + PadOut(e)

Queried == tqLast.result # <<>> \/ tqLast.timecode # 0

(* C7: the active-effect query returns e if and only if
   start_at_position(e) - incoming(e) <= t <=
   start_at_position(e) + (end(e) - start(e)) + outgoing(e); with A on
   [0,2000) and B on [1500,4000) of one track joined by a 500 ms transition,
   both are active at t = 1700. *)
C7_ActiveIff ==
    /\ Queried =>
          \A i \in 1..Len(effects) :
             (effects[i] \in SeqToSet(tqLast.result)) <=> InWindow(effects[i], tqLast.timecode)
    /\ LET r == get_effects_relative_to_timecode(
                    {Transition("a", "b", 250, 250)}, <<EffectA, EffectB>>, 1700)
       IN  SeqToSet(r) = {EffectA, EffectB}

(* C7 witness: a query inside a transition pad only: the effect is outside
   its own span but returned, while another effect of the list is not *)
C7_Witness ==
    /\ Queried
    /\ \E i, j \in 1..Len(effects) :
          /\ effects[i] \in SeqToSet(tqLast.result)
          /\ tqLast.timecode > effects[i].start_at_position + (effects[i].end - effects[i].start)
          /\ effects[j] \notin SeqToSet(tqLast.result)

----------------------------------------------------------------------------
(* Specification SpecDec: the Decoder with its decode workers and demuxers *)

DecTimebases == {1}

DecEffectLists == {<<EffectV>>, <<EffectW>>}

EffectIds(effs) == {effs[i].id : i \in 1..Len(effs)}

DecEffectIds == UNION {EffectIds(effs) : effs \in DecEffectLists}

EffectById(effs, id) == effs[CHOOSE i \in 1..Len(effs) : effs[i].id = id]

InitDec ==
    /\ FBIdle
    /\ EngIdle
    /\ effects \in DecEffectLists
    /\ transitions = {}
    /\ tqLast = [timecode |-> 0, result |-> <<>>]
    /\ effectStates = [id \in EffectIds(effects) |-> NoState]
    /\ orphans = [id \in EffectIds(effects) |-> 0]
    /\ compTimebase \in DecTimebases
    /\ media \in {EffectIds(effects), {}}
    /\ drawCalls = [f \in FrameIds |-> 0]
    /\ drawnClosed = FALSE
    /\ exp = NoExport
    /\ steps = <<>>
    /\ decLast = [op |-> "none", t |-> 0]
    /\ missRun = [id \in EffectIds(effects) |-> 0]
    /\ workers = [id \in EffectIds(effects) |-> 0]
    /\ mediaCtl = NewMedia
    /\ ui = NewUi

DecOther == UNCHANGED <<fb, fbLast, fbArgs, nextId, tqVars, engVars, compTimebase, media,
                       mediaCtl, ui>>

DecFrame == DecOther /\ UNCHANGED <<missRun, workers>>

(* a frame some buffer holds *)
Referenced(f) == \E id \in DOMAIN effectStates : f \in FB_ids(effectStates[id].buffer)

(* the counters of the frames that still exist: a frame that no buffer
   holds is gone, and its id names a new frame from then on *)
Live(cnt) == [f \in FrameIds |-> IF Referenced(f) THEN cnt[f] ELSE 0]

CurW ==
    [World(effectStates, orphans, exp, Live(closeCalls), Live(drawCalls), drawnClosed)
        EXCEPT !.workers = workers]

RECURSIVE SumDraws(_, _)
SumDraws(dc, n) == IF n = 0 THEN 0 ELSE dc[n] + SumDraws(dc, n - 1)

(* the state after a Decoder call that left the world W *)
Apply(W, op, t) ==
    /\ ~ W.overflow
    /\ SumDraws(W.dc, MaxFrames) <= MaxDraws
    /\ effectStates' = W.es
    /\ orphans' = W.orphans
    /\ exp' = W.exp
    /\ closeCalls' = W.cc
    /\ drawCalls' = W.dc
    /\ drawnClosed' = W.bad
    /\ steps' = W.steps
    /\ decLast' = [op |-> op, t |-> t]
    /\ workers' = W.workers
    /\ DecOther

Commit(W, op, t) == Apply(W, op, t) /\ UNCHANGED missRun

StartPrebuffer(id, t) ==
    /\ id \in DOMAIN effectStates
    /\ Commit(start_prebuffer(CurW, EffectById(effects, id), t, transitions,
                              compTimebase, media), "start_prebuffer", t)

StopBuffering(id) ==
    /\ id \in DOMAIN effectStates
    /\ Commit(stop_buffering(CurW, id), "stop_buffering", 0)

DecSeek(t) ==
    /\ t \in DecTimes
    /\ Commit(seek(CurW, SelectSeq(effects, LAMBDA e : e.kind = "video"), t,
                   transitions, compTimebase, media), "seek", t)

DecReset ==
    /\ DOMAIN effectStates # {}
    /\ Commit(reset(CurW), "reset", 0)

DrawAvailableFrames(t) ==
    /\ t \in DecTimes
    /\ Commit(draw_available_frames(CurW, VideoEffectsAt(transitions, effects, t), t,
                                    transitions, compTimebase, media),
              "draw_available_frames", t)

(* get_and_draw_decoded_frame(effects, timestamp) up to its first wait *)
ExportStart(t) ==
    /\ ~ exp.active
    /\ Commit(export_run(CurW, VideoEffectsAt(transitions, effects, t), t,
                         transitions, compTimebase, media),
              "get_and_draw_decoded_frame", t)

(* #waitForFrame: a later poll of the captured state's buffer hits; the
   frame is drawn and the loop goes on *)
ExportPoll ==
    /\ exp.active
    /\ ~ exp.stale
    /\ LET f == FB_get(effectStates[Head(exp.list).id].buffer,
                       EffectTime(Head(exp.list), exp.t))
       IN  /\ f # NoFrame
           /\ Commit(export_run(draw_decoded_frame(CurW, f), Tail(exp.list), exp.t,
                                transitions, compTimebase, media),
                     "waitForFrame", exp.t)

(* #waitForFrame: the timeout passes without a hit; the effect is skipped *)
ExportTimeout ==
    /\ exp.active
    /\ \/ exp.stale
       \/ FB_get(effectStates[Head(exp.list).id].buffer,
                 EffectTime(Head(exp.list), exp.t)) = NoFrame
    /\ Commit(export_run(CurW, Tail(exp.list), exp.t, transitions, compTimebase, media),
              "waitForFrame-timeout", exp.t)

(* a step that is no Decoder call: steps and decLast describe none *)
NoCall ==
    /\ steps' = <<>>
    /\ decLast' = [op |-> "none", t |-> 0]

(* the worker's "message" listener registered by #initWorkerForEffect *)
Deliver(id) ==
    /\ id \in DOMAIN effectStates
    /\ effectStates[id].outbox # <<>>
    /\ LET m == Head(effectStates[id].outbox)
       IN  IF m.action = "new-frame"
           THEN /\ \E f \in FrameIds : ~ Referenced(f)
                /\ LET f == CHOOSE x \in FrameIds :
                                /\ ~ Referenced(x)
                                /\ \A y \in FrameIds : ~ Referenced(y) => x <= y
                       r == FB_add(effectStates[id].buffer, m.ts, f)
                   IN  /\ effectStates' = [effectStates EXCEPT ![id].buffer = r.buf,
                                                               ![id].outbox = Tail(@)]
                       /\ closeCalls' = CloseAll(Live(closeCalls), r.closed)
           ELSE /\ effectStates' = [effectStates EXCEPT ![id].isDecoding = FALSE,
                                                        ![id].outbox = Tail(@)]
                /\ closeCalls' = Live(closeCalls)
    /\ drawCalls' = Live(drawCalls)
    /\ UNCHANGED <<orphans, drawnClosed, exp>>
    /\ NoCall
    /\ DecFrame

DecRest ==
    /\ closeCalls' = Live(closeCalls)
    /\ drawCalls' = Live(drawCalls)
    /\ UNCHANGED <<drawnClosed, exp>>
    /\ NoCall
    /\ DecFrame

(* decode_worker.ts "message" listener up to its first await *)
WorkerRecv(id) ==
    /\ id \in DOMAIN effectStates
    /\ effectStates[id].alive
    /\ effectStates[id].inbox # <<>>
    /\ LET m == Head(effectStates[id].inbox)
           w == effectStates[id].w
           w1 == CASE m.action = "demux" ->
                        [w EXCEPT !.timestamp = m.starting_timestamp,
                                  !.timebase = m.timebase,
                                  !.start = m.start, !.end = m.end,
                                  !.timestamp_end = m.starting_timestamp + (m.end - m.start),
                                  !.lastProcessedTimestamp = 0,
                                  !.endSent = FALSE, !.isConfigured = FALSE]
                   [] m.action = "configure" ->
                        IF w.closed THEN [w EXCEPT !.failed = TRUE]
                        ELSE [w EXCEPT !.flushing = TRUE]
                   [] m.action = "chunk" ->
                        IF w.isConfigured /\ ~ w.closed
                        THEN [w EXCEPT !.queue = Append(@, m.pts)] ELSE w
                   [] m.action = "cleanup" -> cleanup(w)
                   [] m.action = "eof" -> [w EXCEPT !.eof = TRUE]
                   [] OTHER -> w
       IN  effectStates' = [effectStates EXCEPT ![id].inbox = Tail(@), ![id].w = w1]
    /\ UNCHANGED orphans
    /\ DecRest

(* configure: await decoder.flush() resolves; isConfigured = true *)
WorkerFlushDone(id) ==
    /\ id \in DOMAIN effectStates
    /\ effectStates[id].alive
    /\ effectStates[id].w.flushing
    /\ ~ effectStates[id].w.closed
    /\ effectStates[id].w.queue = <<>>
    /\ effectStates' = [effectStates EXCEPT ![id].w.flushing = FALSE,
                                            ![id].w.isConfigured = TRUE]
    /\ UNCHANGED orphans
    /\ DecRest

(* configure: decoder.configure(config) or decoder.flush() throws; the catch
   logs the error and isConfigured stays false *)
WorkerConfigureFail(id) ==
    /\ id \in DOMAIN effectStates
    /\ effectStates[id].alive
    /\ effectStates[id].w.flushing
    /\ effectStates' = [effectStates EXCEPT ![id].w.flushing = FALSE,
                                            ![id].w.failed = TRUE]
    /\ UNCHANGED orphans
    /\ DecRest

(* the VideoDecoder output callback for the next decoded frame *)
DecoderOutput(id) ==
    /\ id \in DOMAIN effectStates
    /\ effectStates[id].alive
    /\ effectStates[id].w.queue # <<>>
    /\ LET w   == effectStates[id].w
           pts == Head(w.queue)
           w0  == [w EXCEPT !.queue = Tail(@)]
           r   == IF pts < w.start THEN [w |-> w0, posts |-> <<>>] ELSE processFrame(w0, pts)
       IN  effectStates' =
               [effectStates EXCEPT ![id].w = [r.w EXCEPT !.posted = @ \o r.posts],
                   ![id].outbox = @ \o [j \in 1..Len(r.posts) |->
                                          Post("new-frame", r.posts[j])]]
    /\ UNCHANGED orphans
    /\ DecRest

(* eof: await decoder.flush() resolves; "end" is posted unless already sent *)
WorkerEofDone(id) ==
    /\ id \in DOMAIN effectStates
    /\ effectStates[id].alive
    /\ effectStates[id].w.eof
    /\ effectStates[id].w.queue = <<>>
    /\ effectStates' =
           [effectStates EXCEPT ![id].w.eof = FALSE, ![id].w.endSent = TRUE,
               ![id].outbox = IF effectStates[id].w.endSent THEN @
                              ELSE Append(@, Post("end", 0))]
    /\ UNCHANGED orphans
    /\ DecRest

(* the worker's 100 ms interval timer *)
WorkerInterval(id) ==
    /\ id \in DOMAIN effectStates
    /\ effectStates[id].alive
    /\ effectStates[id].w.interval
    /\ effectStates[id].w.timestamp >= effectStates[id].w.timestamp_end
    /\ effectStates[id].w.timestamp_end > 0
    /\ ~ effectStates[id].w.endSent
    /\ effectStates' = [effectStates EXCEPT ![id].w.endSent = TRUE,
                                            ![id].outbox = Append(@, Post("end", 0))]
    /\ UNCHANGED orphans
    /\ DecRest

(* demuxer(): load and getVideoDecoderConfig resolve; onConfig(config) posts
   configure *)
DemuxLoaded(id) ==
    /\ id \in DOMAIN effectStates
    /\ effectStates[id].dmx.pc = "load"
    /\ effectStates' = [effectStates EXCEPT ![id].dmx.pc = "read",
                                            ![id].inbox = Append(@, Msg("configure", 0))]
    /\ UNCHANGED orphans
    /\ DecRest

(* demuxer(): the reader yields the next packet; the pacing delay is taken
   from queue, onChunk(chunk) posts chunk and the delay is slept *)
DemuxPacket(id) ==
    /\ id \in DOMAIN effectStates
    /\ effectStates[id].dmx.pc = "read"
    /\ effectStates[id].dmx.i < Len(effectStates[id].dmx.pkts)
    /\ effectStates' =
           [effectStates EXCEPT ![id].dmx.i = @ + 1,
               ![id].dmx.delay = calculateDynamicDelay(effectStates[id].dmx.queue),
               ![id].inbox = Append(@, Msg("chunk",
                                 effectStates[id].dmx.pkts[effectStates[id].dmx.i + 1]))]
    /\ UNCHANGED orphans
    /\ DecRest

(* demuxer() resolves: .then posts eof *)
DemuxDone(id) ==
    /\ id \in DOMAIN effectStates
    /\ effectStates[id].dmx.pc = "read"
    /\ effectStates[id].dmx.i = Len(effectStates[id].dmx.pkts)
    /\ effectStates' = [effectStates EXCEPT ![id].dmx.pc = "done",
                                            ![id].inbox = Append(@, Msg("eof", 0))]
    /\ UNCHANGED orphans
    /\ DecRest

(* demuxer() rejects: .catch calls this.stop_buffering(effect.id) *)
DemuxFail(id) ==
    /\ id \in DOMAIN effectStates
    /\ Pending(effectStates[id].dmx)
    /\ Commit(stop_buffering([CurW EXCEPT !.es[id].dmx.pc = "failed"], id),
              "demuxer-catch", 0)

(* the demuxer of a terminated worker resolves: its eof goes to nothing *)
OrphanDone(id) ==
    /\ id \in DOMAIN effectStates
    /\ orphans[id] > 0
    /\ orphans' = [orphans EXCEPT ![id] = @ - 1]
    /\ UNCHANGED effectStates
    /\ DecRest

(* the demuxer of a terminated worker rejects: its .catch calls
   this.stop_buffering(effect.id) all the same *)
OrphanFail(id) ==
    /\ id \in DOMAIN effectStates
    /\ orphans[id] > 0
    /\ Commit(stop_buffering([CurW EXCEPT !.orphans[id] = @ - 1], id),
              "stale-demuxer-catch", 0)

NextDec ==
    \/ \E id \in DecEffectIds, t \in DecTimes : StartPrebuffer(id, t)
    \/ \E id \in DecEffectIds : StopBuffering(id)
    \/ \E t \in DecTimes : DecSeek(t)
    \/ DecReset
    \/ \E t \in DecTimes : DrawAvailableFrames(t)
    \/ \E t \in ExportTimes : ExportStart(t)
    \/ ExportPoll
    \/ ExportTimeout
    \/ \E id \in DecEffectIds : Deliver(id)
    \/ \E id \in DecEffectIds : WorkerRecv(id)
    \/ \E id \in DecEffectIds : WorkerFlushDone(id)
    \/ \E id \in DecEffectIds : DecoderOutput(id)
    \/ \E id \in DecEffectIds : WorkerEofDone(id)
    \/ \E id \in DecEffectIds : WorkerInterval(id)
    \/ \E id \in DecEffectIds : DemuxLoaded(id)
    \/ \E id \in DecEffectIds : DemuxPacket(id)
    \/ \E id \in DecEffectIds : DemuxDone(id)
    \/ \E id \in DecEffectIds : DemuxFail(id)
    \/ \E id \in DecEffectIds : OrphanDone(id)
    \/ \E id \in DecEffectIds : OrphanFail(id)

SpecDec == InitDec /\ [][NextDec]_vars

----------------------------------------------------------------------------
(* Claims on SpecDec *)

(* C1 as stated: every buffered frame is drawn by exactly one consumer and
   then released: no frame is drawn twice, closed twice, or drawn after it
   was closed. *)
C1_Original ==
    /\ \A f \in FrameIds : drawCalls[f] <= 1 /\ closeCalls[f] <= 1
    /\ ~ drawnClosed

(* C1: no frame is closed twice, no draw uses a closed frame, and every frame
   a buffer holds is open; a buffered frame stays in its buffer after a draw
   and may be drawn again until eviction, replacement, clear or teardown
   releases it. *)
C1_ReleasedOnce ==
    /\ \A f \in FrameIds : closeCalls[f] <= 1
    /\ \A f \in FrameIds : Referenced(f) => closeCalls[f] = 0
    /\ ~ drawnClosed

(* a frame drawn by two calls and released afterwards by a teardown *)
C1_Witness ==
    \E f \in FrameIds : drawCalls[f] >= 2 /\ closeCalls[f] = 1 /\ ~ Referenced(f)

StopsDelivery(kind) == kind = "terminate"

TeardownKinds == {"release", "cleanup", "terminate", "delete"}

(* C4 as stated: in every teardown delivery is stopped first, then the
   buffered frames are released, then the worker is terminated. *)
C4_Original ==
    \A i \in 1..Len(steps) :
        steps[i].kind = "release" =>
            \E j \in 1..(i - 1) : steps[j].eff = steps[i].eff /\ StopsDelivery(steps[j].kind)

(* C4: every teardown releases the buffered frames first, then posts cleanup,
   then terminates the worker, which is the step that ends delivery; all of
   it precedes the creation of a replacement for the same effect id, and a
   terminated context has no message left in either direction. *)
C4_TeardownOrder ==
    /\ \A i \in 1..Len(steps) :
          /\ steps[i].kind = "terminate" =>
                 /\ i >= 3
                 /\ steps[i - 1] = Step("cleanup", steps[i].eff)
                 /\ steps[i - 2] = Step("release", steps[i].eff)
          /\ steps[i].kind = "release" =>
                 /\ i + 2 <= Len(steps)
                 /\ steps[i + 2] = Step("terminate", steps[i].eff)
          /\ steps[i].kind = "create" =>
                 \A j \in 1..Len(steps) :
                     (steps[j].eff = steps[i].eff /\ steps[j].kind \in TeardownKinds) => j < i
    /\ \A id \in DOMAIN effectStates :
          ~ effectStates[id].alive =>
              effectStates[id].inbox = <<>> /\ effectStates[id].outbox = <<>>

(* a seek restart that released a buffered frame *)
C4_Witness ==
    /\ decLast.op = "seek"
    /\ Len(steps) = 5
    /\ steps[1].kind = "release"
    /\ steps[3].kind = "terminate"
    /\ steps[5].kind = "create"
    /\ \E f \in FrameIds : closeCalls[f] = 1

(* the buffered timestamps of effect id *)
BufferedTs(id) == FB_keys(effectStates[id].buffer)

(* the step is a seek(effects, t) call that found a state for effect id *)
SeekStepOn(id) ==
    /\ decLast'.op = "seek"
    /\ effectStates[id].registered

SeekTarget(id) == EffectTime(EffectById(effects, id), decLast'.t)

Restarted(id) == \E i \in 1..Len(steps') : steps'[i] = Step("create", id)

RestartedOnce(id) ==
    Cardinality({i \in 1..Len(steps') : steps'[i] = Step("create", id)}) = 1

(* C5 as stated, in the part that holds for every lookahead: a target inside
   [buffered_min, buffered_max] never restarts, a target below buffered_min
   restarts. *)
C5_Original ==
    [][\A id \in DOMAIN effectStates :
          (SeekStepOn(id) /\ BufferedTs(id) # {}) =>
              /\ (\E lo, hi \in BufferedTs(id) : lo <= SeekTarget(id) /\ SeekTarget(id) <= hi)
                     => ~ Restarted(id)
              /\ (\A lo \in BufferedTs(id) : SeekTarget(id) < lo) => Restarted(id)]_vars

(* C5: a seek keeps the context of an effect exactly when some buffered
   frame lies within half a frame interval of the effect-relative target,
   on either side; otherwise, an empty buffer included, it restarts the
   context exactly once. *)
C5_SeekPolicy ==
    [][\A id \in DOMAIN effectStates :
          SeekStepOn(id) =>
              IF \E ts \in BufferedTs(id) :
                    2 * compTimebase * Abs(ts - SeekTarget(id)) <= 1000
              THEN /\ ~ Restarted(id)
                   /\ effectStates'[id] = effectStates[id]
              ELSE /\ RestartedOnce(id)
                   /\ effectStates'[id].buffer = FB_new(compTimebase, 2 * BsDen)]_vars

(* a seek that kept a context whose buffered range starts above the target *)
C5_Witness ==
    /\ decLast.op = "seek"
    /\ steps = <<>>
    /\ \E id \in DOMAIN effectStates :
          /\ effectStates[id].registered
          /\ BufferedTs(id) # {}
          /\ \A ts \in BufferedTs(id) :
                EffectTime(EffectById(effects, id), decLast.t) < ts

(* C6 as stated: no chunk message is sent to a worker that has not completed
   configure. *)
C6_Original ==
    \A id \in DOMAIN effectStates :
        (\E i \in 1..Len(effectStates[id].inbox) : effectStates[id].inbox[i].action = "chunk")
            => effectStates[id].w.isConfigured

StrictlyIncreasing(q) == \A i \in 1..(Len(q) - 1) : q[i] < q[i + 1]

(* C8: the timestamps of the new-frame messages a decode context posts are
   strictly increasing. *)
C8_Monotonic ==
    \A id \in DOMAIN effectStates : StrictlyIncreasing(effectStates[id].w.posted)

(* a context that has posted three frames, the last two from one decoded frame *)
C8_Witness ==
    \E id \in DOMAIN effectStates :
        /\ Len(effectStates[id].w.posted) >= 3
        /\ Len(effectStates[id].outbox) >= 2

(* C15: an effect id has at most one live decode worker; it has one exactly
   when #effectStates holds a state for it, and that state's worker and
   buffer are the only ones of the id: frames are buffered for registered
   states only. *)
C15_OneWorkerPerEffect ==
    \A id \in DOMAIN effectStates :
        /\ workers[id] <= 1
        /\ workers[id] = 1 <=> effectStates[id].registered
        /\ effectStates[id].registered <=> effectStates[id].alive
        /\ ~ effectStates[id].registered => FB_size(effectStates[id].buffer) = 0

(* a seek has just replaced the decode context of an effect: the old worker
   is terminated and the new one is the only live worker of the id *)
C15_Witness ==
    /\ decLast.op = "seek"
    /\ \E id \in DOMAIN effectStates :
          /\ \E i, j \in 1..Len(steps) :
                /\ i < j
                /\ steps[i] = Step("terminate", id)
                /\ steps[j] = Step("create", id)
          /\ workers[id] = 1

(* the active video effects at t whose lookup hits in the present buffers *)
HitsAt(t) ==
    LET act == VideoEffectsAt(transitions, effects, t)
    IN  {i \in 1..Len(act) :
            /\ effectStates[act[i].id].registered
            /\ FB_get(effectStates[act[i].id].buffer, EffectTime(act[i], t)) # NoFrame}

(* C19: a draw_available_frames call is one step that leaves no wait
   behind; it tears nothing down and changes no existing context, draws one frame per
   effect whose lookup hits, and does nothing for an effect whose lookup
   misses beyond creating its context if it had none. *)
C19_NonBlockingDraw ==
    [][decLast'.op = "draw_available_frames" =>
          /\ exp' = exp
          /\ \A i \in 1..Len(steps') : steps'[i].kind = "create"
          /\ \A id \in DOMAIN effectStates :
                /\ effectStates[id].registered => effectStates'[id] = effectStates[id]
                /\ ~ effectStates[id].registered => FB_size(effectStates'[id].buffer) = 0
          /\ SumDraws(drawCalls', MaxFrames)
                = SumDraws(Live(drawCalls), MaxFrames) + Cardinality(HitsAt(decLast'.t))]_vars

(* a draw_available_frames call has just missed on a registered effect and
   no wait is pending *)
C19_Witness ==
    /\ decLast.op = "draw_available_frames"
    /\ ~ exp.active
    /\ steps = <<>>
    /\ \E id \in DOMAIN effectStates :
          /\ id \in EffectIds(VideoEffectsAt(transitions, effects, decLast.t))
          /\ effectStates[id].registered
          /\ FB_size(effectStates[id].buffer) > 0
          /\ FB_get(effectStates[id].buffer,
                    EffectTime(EffectById(effects, id), decLast.t)) = NoFrame

----------------------------------------------------------------------------
(* Specification SpecEng: one engine session, from the construction of its
   Compositor to after destroy() *)

InitEng ==
    /\ FBIdle
    /\ effects \in {<<>>, <<EffectA, EffectB>>}
    /\ transitions \in {{}, {Transition("a", "b", 250, 250)}}
    /\ tqLast = [timecode |-> 0, result |-> <<>>]
    /\ EngIdle
    /\ DecIdle

EngFrame == UNCHANGED <<fbVars, tqVars, decVars>>

Did(op, r) ==
    /\ comp' = r.c
    /\ eng' = r.e
    /\ engLast' = [op |-> op, threw |-> r.threw, warned |-> r.warned, rendered |-> r.rendered]

(* createEngine: compositor.markReady() opens the gate and starts the loop *)
MarkReady ==
    /\ ~ comp.recreated
    /\ Did("markReady",
           on_playing([comp EXCEPT !.recreated = TRUE], eng, transitions, effects, now))
    /\ UNCHANGED <<now, recreating, recreateDone>>
    /\ EngFrame

(* recreate(state, media) up to its first await *)
RecreateStart ==
    /\ ~ recreating
    /\ recreating' = TRUE
    /\ engLast' = [op |-> "recreate", threw |-> FALSE, warned |-> FALSE, rendered |-> FALSE]
    /\ UNCHANGED <<comp, eng, now, recreateDone>>
    /\ EngFrame

(* recreate() after the files are ready: rebuild, set #recreated, compose *)
RecreateFinish ==
    /\ recreating
    /\ recreating' = FALSE
    /\ recreateDone' = TRUE
    /\ Did("recreated",
           compose_effects([comp EXCEPT !.recreated = TRUE], eng, transitions, effects,
                           comp.timecode))
    /\ UNCHANGED now
    /\ EngFrame

(* engine.play() / engine.pause(): compositor.set_video_playing(playing) *)
Play ==
    /\ Did("play", Outcome([comp EXCEPT !.is_playing = TRUE],
                            [eng EXCEPT !.is_playing = TRUE], FALSE, FALSE, FALSE))
    /\ UNCHANGED <<now, recreating, recreateDone>>
    /\ EngFrame

Pause ==
    /\ Did("pause", Outcome([comp EXCEPT !.is_playing = FALSE],
                             [eng EXCEPT !.is_playing = FALSE], FALSE, FALSE, FALSE))
    /\ LET W == pause_videos(CurW)
       IN  /\ effectStates' = W.es
           /\ orphans' = W.orphans
           /\ exp' = W.exp
           /\ closeCalls' = W.cc
           /\ drawCalls' = W.dc
           /\ drawnClosed' = W.bad
           /\ workers' = W.workers
    /\ UNCHANGED <<now, recreating, recreateDone, fb, fbLast, fbArgs, nextId, tqVars,
                   compTimebase, media, mediaCtl, ui, steps, decLast, missRun>>

(* a toggle that goes to the state's action alone, as in the earlier
   createEngine of src/unnamed/part_007 *)
toggle_video_playing_stateOnly(c, e) ==
    Outcome(c, [e EXCEPT !.is_playing = ~ @], FALSE, FALSE, FALSE)

(* Compositor.toggle_video_playing: negates #is_playing and calls
   actions.toggle_is_playing *)
toggle_video_playing(c, e) ==
    Outcome([c EXCEPT !.is_playing = ~ @], [e EXCEPT !.is_playing = ~ @],
            FALSE, FALSE, FALSE)

(* engine.togglePlayback(): compositor.toggle_video_playing() *)
TogglePlayback ==
    /\ Did("togglePlayback", toggle_video_playing(comp, eng))
    /\ UNCHANGED <<now, recreating, recreateDone>>
    /\ EngFrame

(* a seek that pauses playback *)
compositor_seek_pausing(c, timecode) == [c EXCEPT !.is_playing = FALSE]

(* a seek that empties currently_played_effects *)
compositor_seek_clearing(c, timecode) == [c EXCEPT !.played = {}]

(* Compositor.seek(timecode): seeks the animation and transition managers
   and starts the paused media elements of the played effects while
   #is_playing is set; it writes no field of the compositor *)
compositor_seek(c, timecode) == c

(* engine.seek(timecode): set_timecode and compositor.seek while the actions
   bundle exists *)
Seek(t) ==
    /\ Did("seek", Outcome(IF eng.alive THEN compositor_seek(comp, t) ELSE comp,
                            IF eng.alive THEN [eng EXCEPT !.timecode = t] ELSE eng,
                            FALSE, FALSE, FALSE))
    /\ UNCHANGED <<now, recreating, recreateDone>>
    /\ EngFrame

(* engine.getState(): warns and returns the defaults once cleared *)
GetState ==
    /\ Did("getState", Outcome(comp, eng, FALSE, ~ eng.alive, FALSE))
    /\ UNCHANGED <<now, recreating, recreateDone>>
    /\ EngFrame

(* compositor.compose_effects(state.effects, timecode) called from outside *)
ComposeEffects(t) ==
    /\ Did("compose_effects", compose_effects(comp, eng, transitions, effects, t))
    /\ UNCHANGED <<now, recreating, recreateDone>>
    /\ EngFrame

(* compositor.clear(): returns at once when destroyed or without app *)
Clear ==
    /\ Did("clear", Outcome(comp, eng, FALSE, FALSE, FALSE))
    /\ UNCHANGED <<now, recreating, recreateDone>>
    /\ EngFrame

(* a read of compositor.app *)
AppAccess ==
    /\ Did("app", Outcome(comp, eng, app_getter(comp).threw, app_getter(comp).warned, FALSE))
    /\ UNCHANGED <<now, recreating, recreateDone>>
    /\ EngFrame

(* the scheduled animation frame fires *)
Tick ==
    /\ comp.raf
    /\ Did("tick", on_playing(comp, eng, transitions, effects, now))
    /\ UNCHANGED <<now, recreating, recreateDone>>
    /\ EngFrame

AdvanceClock(d) ==
    /\ now + d <= MaxNow
    /\ now' = now + d
    /\ UNCHANGED <<comp, eng, recreating, recreateDone, engLast>>
    /\ EngFrame

(* engine.destroy(): compositor.destroy(), set_is_playing(false), instances
   cleared *)
Destroy ==
    /\ Did("destroy", Outcome(compositor_destroy(comp),
                               [eng EXCEPT !.alive = FALSE, !.is_playing = FALSE],
                               FALSE, FALSE, FALSE))
    /\ UNCHANGED <<now, recreating, recreateDone>>
    /\ EngFrame

NextEng ==
    \/ MarkReady
    \/ RecreateStart
    \/ RecreateFinish
    \/ Play
    \/ Pause
    \/ TogglePlayback
    \/ \E t \in SeekTimes : Seek(t)
    \/ GetState
    \/ \E t \in SeekTimes : ComposeEffects(t)
    \/ Clear
    \/ AppAccess
    \/ Tick
    \/ \E d \in ClockSteps : AdvanceClock(d)
    \/ Destroy

SpecEng == InitEng /\ [][NextEng]_vars

(* a compose call has taken effect: the compositor shows a timecode or a
   played set other than the constructed ones, or the last call rendered *)
ComposeTookEffect ==
    comp.timecode # 0 \/ comp.played # {} \/ engLast.rendered

(* C9 as stated: no compose call takes effect before a recreate() has
   completed *)
C9_Original == ComposeTookEffect => recreateDone

(* C9 amended: while the ready gate is closed (#recreated false, opened by
   the completion of recreate() or by markReady()), no call updates the
   timecode, changes the played-effect set or draws *)
C9_GateClosed ==
    [][(~ comp.recreated /\ ~ comp'.recreated) =>
          /\ comp'.timecode = comp.timecode
          /\ comp'.played = comp.played
          /\ (engLast' # engLast => ~ engLast'.rendered)]_vars

(* C9 witness: compose_effects was called with effects active at its
   timecode while the gate was closed *)
C9_Witness ==
    /\ engLast.op = "compose_effects"
    /\ ~ comp.recreated
    /\ ~ comp.destroyed
    /\ ActiveIds(transitions, effects, 1700) # {}

(* C10: every public operation invoked after destroy is a no-op that at
   most warns and never throws *)
C10_StaleNoThrow ==
    (comp.destroyed /\ engLast.op \in PublicOps) => ~ engLast.threw

(* C20: seek is possible in every state of the session, and a seek leaves
   is_playing as it was: Playing stays Playing and Paused stays Paused. *)
C20_SeekKeepsPlayback ==
    /\ [](\A t \in SeekTimes : ENABLED Seek(t))
    /\ [][engLast'.op = "seek" =>
            /\ comp'.is_playing = comp.is_playing
            /\ eng'.is_playing = eng.is_playing]_vars

(* a seek made while playing has moved the timecode and playback goes on *)
C20_Witness ==
    /\ engLast.op = "seek"
    /\ eng.alive
    /\ eng.timecode = 1700
    /\ comp.is_playing
    /\ eng.is_playing

(* C22: play() leaves the session playing, and a render tick of a playing
   session advances the timecode by the time passed since the previous
   render tick, whatever the time spent paused before it. *)
C22_ResumeAnchor ==
    /\ [](engLast.op = "play" => (comp.is_playing /\ eng.is_playing))
    /\ [][(/\ comp'.tick_at # comp.tick_at
           /\ comp.is_playing
           /\ ~ comp.destroyed)
          => eng'.timecode = eng.timecode + (now - comp.tick_at)]_vars
    /\ [][(engLast'.op \in {"tick", "markReady"} /\ eng'.timecode # eng.timecode)
          => eng'.timecode = eng.timecode + (now - comp.tick_at)]_vars

(* the first tick after a resume: the session was paused across earlier
   ticks, and the timecode is behind the wall clock by the time paused *)
C22_Witness ==
    /\ engLast.op = "tick"
    /\ comp.is_playing
    /\ comp.pause_time > 0
    /\ comp.tick_at = now
    /\ eng.timecode > 0
    /\ eng.timecode = now - comp.pause_time

----------------------------------------------------------------------------
(* Specification SpecSess: a preview session, playback control and render
   ticks of the engine together with the Decoder of one video effect *)

SessEffectLists == {<<EffectX>>}

SessEffectIds == UNION {EffectIds(effs) : effs \in SessEffectLists}

SessTimes == {0}

InitSess ==
    /\ FBIdle
    /\ EngIdle
    /\ effects \in SessEffectLists
    /\ transitions = {}
    /\ tqLast = [timecode |-> 0, result |-> <<>>]
    /\ effectStates = [id \in EffectIds(effects) |-> NoState]
    /\ orphans = [id \in EffectIds(effects) |-> 0]
    /\ compTimebase \in DecTimebases
    /\ media = EffectIds(effects)
    /\ drawCalls = [f \in FrameIds |-> 0]
    /\ drawnClosed = FALSE
    /\ exp = NoExport
    /\ steps = <<>>
    /\ decLast = [op |-> "none", t |-> 0]
    /\ missRun = [id \in EffectIds(effects) |-> 0]
    /\ workers = [id \in EffectIds(effects) |-> 0]
    /\ mediaCtl = NewMedia
    /\ ui = NewUi

NextSess ==
    \/ MarkReady
    \/ Play
    \/ Pause
    \/ Tick
    \/ \E d \in ClockSteps : AdvanceClock(d)
    \/ \E t \in SessTimes : DrawAvailableFrames(t)
    \/ \E id \in SessEffectIds : Deliver(id)
    \/ \E id \in SessEffectIds : WorkerRecv(id)
    \/ \E id \in SessEffectIds : WorkerFlushDone(id)
    \/ \E id \in SessEffectIds : DecoderOutput(id)
    \/ \E id \in SessEffectIds : WorkerEofDone(id)
    \/ \E id \in SessEffectIds : WorkerInterval(id)
    \/ \E id \in SessEffectIds : DemuxLoaded(id)
    \/ \E id \in SessEffectIds : DemuxPacket(id)
    \/ \E id \in SessEffectIds : DemuxDone(id)
    \/ \E id \in SessEffectIds : DemuxFail(id)

SpecSess == InitSess /\ [][NextSess]_vars

(* C21: pause() leaves every decode context, every buffered frame and every
   message in flight as they were and closes no frame; and while the
   session stays paused no step, render ticks included, moves the
   timecode. *)
C21_PauseFreezes ==
    /\ [][(comp.is_playing /\ ~ comp'.is_playing) =>
            /\ effectStates' = effectStates
            /\ workers' = workers
            /\ orphans' = orphans
            /\ closeCalls' = Live(closeCalls)
            /\ eng'.timecode = eng.timecode]_vars
    /\ [][(~ comp.is_playing /\ ~ comp'.is_playing) =>
            /\ eng'.timecode = eng.timecode
            /\ comp'.timecode = comp.timecode]_vars

(* the session was playing and has advanced, it is paused now, a render
   tick has run since, and the buffered frame is still there *)
C21_Witness ==
    /\ ~ comp.is_playing
    /\ engLast.op = "tick"
    /\ eng.timecode > 0
    /\ now > eng.timecode
    /\ \E id \in DOMAIN effectStates :
          /\ effectStates[id].alive
          /\ FB_size(effectStates[id].buffer) > 0

----------------------------------------------------------------------------
(* Specification SpecPad: decode contexts started on timelines with
   transitions, at every timecode of the query *)

PadEffectLists == {<<EffectA, EffectB>>, <<EffectB, EffectD>>}

PadEffectIds == UNION {EffectIds(effs) : effs \in PadEffectLists}

PadTimes == {0, 1250, 1900, 2250, 4000, 4001}

InitPad ==
    /\ FBIdle
    /\ EngIdle
    /\ effects \in PadEffectLists
    /\ transitions \in TransitionSets
    /\ tqLast = [timecode |-> 0, result |-> <<>>]
    /\ effectStates = [id \in EffectIds(effects) |-> NoState]
    /\ orphans = [id \in EffectIds(effects) |-> 0]
    /\ compTimebase \in DecTimebases
    /\ media = EffectIds(effects)
    /\ drawCalls = [f \in FrameIds |-> 0]
    /\ drawnClosed = FALSE
    /\ exp = NoExport
    /\ steps = <<>>
    /\ decLast = [op |-> "none", t |-> 0]
    /\ missRun = [id \in EffectIds(effects) |-> 0]
    /\ workers = [id \in EffectIds(effects) |-> 0]
    /\ mediaCtl = NewMedia
    /\ ui = NewUi

NextPad ==
    \/ \E id \in PadEffectIds, t \in PadTimes : StartPrebuffer(id, t)
    \/ \E id \in PadEffectIds : StopBuffering(id)
    \/ \E id \in PadEffectIds : OrphanDone(id)

SpecPad == InitPad /\ [][NextPad]_vars

(* C23 as stated: when a decode context is started at a timecode at which
   its video effect is active, transition pads included, the effect-relative
   media time of that timecode lies inside the [start, end] window of the
   demux message sent to the worker. *)
C23_Original ==
    decLast.op = "start_prebuffer" =>
        \A i \in 1..Len(effects) :
            (/\ Step("create", effects[i].id) \in SeqToSet(steps)
             /\ is_active(transitions, effects[i], decLast.t))
            => LET m == Head(effectStates[effects[i].id].inbox)
               IN  /\ m.action = "demux"
                   /\ m.start <= EffectTime(effects[i], decLast.t)
                   /\ EffectTime(effects[i], decLast.t) <= m.end

----------------------------------------------------------------------------
(* Export: timeouts of #waitForFrame *)

(* the timestamps the Decoder has on record as missing: a timeout of
   #waitForFrame only warns on the console and returns null, and
   get_and_draw_decoded_frame drops the null; nothing is stored *)
RecordedMissing == {}

(* C11 as stated: every timecode whose frame wait timed out is recorded as
   missing. *)
C11_Original ==
    decLast.op = "waitForFrame-timeout" => decLast.t \in RecordedMissing

----------------------------------------------------------------------------
(* Export with the clock of #waitForFrame *)

(* get_and_draw_decoded_frame passes timeoutMs = 5000 *)
TimeoutMs == 5000

(* #waitForFrame sleeps setTimeout(resolve, 10) between two polls *)
PollMs == 10

ExpEffectLists == {<<EffectV, EffectX>>}

ExpEffectIds == UNION {EffectIds(effs) : effs \in ExpEffectLists}

ExpTimes == {0}

ExpMedia == {{"x"}, {}}

(* Date.now() - startTime when the sleep of the pending wait ends *)
Elapsed(e) == e.waited + PollMs

(* a #waitForFrame whose loop never ends *)
InTime_forever(e) == TRUE

(* the loop condition of #waitForFrame: Date.now() - startTime < timeoutMs *)
InTime(e) == Elapsed(e) < TimeoutMs

InitExp ==
    /\ FBIdle
    /\ EngIdle
    /\ effects \in ExpEffectLists
    /\ transitions = {}
    /\ tqLast = [timecode |-> 0, result |-> <<>>]
    /\ effectStates = [id \in EffectIds(effects) |-> NoState]
    /\ orphans = [id \in EffectIds(effects) |-> 0]
    /\ compTimebase \in DecTimebases
    /\ media \in ExpMedia
    /\ drawCalls = [f \in FrameIds |-> 0]
    /\ drawnClosed = FALSE
    /\ exp = NoExport
    /\ steps = <<>>
    /\ decLast = [op |-> "none", t |-> 0]
    /\ missRun = [id \in EffectIds(effects) |-> 0]
    /\ workers = [id \in EffectIds(effects) |-> 0]
    /\ mediaCtl = NewMedia
    /\ ui = NewUi

(* get_and_draw_decoded_frame(effects, t) up to its first sleep *)
ExpStart(t) ==
    /\ ~ exp.active
    /\ SumDraws(Live(drawCalls), MaxFrames)
         + Len(VideoEffectsAt(transitions, effects, t)) <= MaxDraws
    /\ Commit(export_run(CurW, VideoEffectsAt(transitions, effects, t), t,
                         transitions, compTimebase, media),
              "get_and_draw_decoded_frame", t)

(* #waitForFrame wakes in time and buffer.get hits: the frame is drawn and
   the for loop goes on with the next effect *)
WaitHit ==
    /\ exp.active
    /\ InTime(exp)
    /\ ~ exp.stale
    /\ LET f == FB_get(effectStates[Head(exp.list).id].buffer,
                       EffectTime(Head(exp.list), exp.t))
       IN  /\ f # NoFrame
           /\ Commit(export_run(draw_decoded_frame(CurW, f), Tail(exp.list), exp.t,
                                transitions, compTimebase, media),
                     "waitForFrame", exp.t)

(* #waitForFrame wakes in time and buffer.get misses: it sleeps again *)
WaitMiss ==
    /\ exp.active
    /\ InTime(exp)
    /\ \/ exp.stale
       \/ FB_get(effectStates[Head(exp.list).id].buffer,
                 EffectTime(Head(exp.list), exp.t)) = NoFrame
    /\ exp' = [exp EXCEPT !.waited = Elapsed(exp)]
    /\ closeCalls' = Live(closeCalls)
    /\ drawCalls' = Live(drawCalls)
    /\ steps' = <<>>
    /\ decLast' = [op |-> "waitForFrame-sleep", t |-> exp.t]
    /\ UNCHANGED <<effectStates, orphans, drawnClosed>>
    /\ DecFrame

(* #waitForFrame wakes with the timeout passed: it warns and returns null,
   and the for loop goes on with the next effect *)
WaitTimeout ==
    /\ exp.active
    /\ ~ InTime(exp)
    /\ Commit(export_run(CurW, Tail(exp.list), exp.t, transitions, compTimebase, media),
              "waitForFrame-timeout", exp.t)

(* the timer callback of the pending #waitForFrame *)
WaitStep == WaitHit \/ WaitMiss \/ WaitTimeout

NextExp ==
    \/ \E t \in ExpTimes : ExpStart(t)
    \/ WaitHit
    \/ WaitMiss
    \/ WaitTimeout
    \/ \E id \in ExpEffectIds : Deliver(id)
    \/ \E id \in ExpEffectIds : WorkerRecv(id)
    \/ \E id \in ExpEffectIds : WorkerFlushDone(id)
    \/ \E id \in ExpEffectIds : DecoderOutput(id)
    \/ \E id \in ExpEffectIds : WorkerEofDone(id)
    \/ \E id \in ExpEffectIds : WorkerInterval(id)
    \/ \E id \in ExpEffectIds : DemuxLoaded(id)
    \/ \E id \in ExpEffectIds : DemuxPacket(id)
    \/ \E id \in ExpEffectIds : DemuxDone(id)
    \/ \E id \in ExpEffectIds : DemuxFail(id)

(* the event loop runs the callback of an expired timer *)
SpecExp == InitExp /\ [][NextExp]_vars /\ WF_vars(WaitStep)

(* the suffixes of the effect list a wait can hand over to *)
IsLaterSuffix(l, m) == \E k \in 1..Len(l) : m = SubSeq(l, k + 1, Len(l))

(* C12: a frame wait that never hits ends when 5000 ms have passed, after
   polls 10 ms apart; the timeout leaves every decode context as it was and
   the acquisition goes on with the effects after the timed-out one, at the
   same timecode, or completes; and every acquisition ends. *)
C12_TimeoutContinues ==
    /\ [](exp.active => exp.waited < TimeoutMs)
    /\ [][decLast'.op = "waitForFrame-sleep" => exp'.waited = exp.waited + PollMs]_vars
    /\ [][decLast'.op = "waitForFrame-timeout" =>
            /\ Elapsed(exp) = TimeoutMs
            /\ \A id \in DOMAIN effectStates :
                  effectStates[id].registered =>
                      /\ effectStates'[id].registered
                      /\ effectStates'[id].alive = effectStates[id].alive
                      /\ effectStates'[id].buffer = effectStates[id].buffer
            /\ \/ ~ exp'.active
               \/ /\ exp'.t = exp.t
                  /\ exp'.waited = 0
                  /\ IsLaterSuffix(exp.list, exp'.list)]_vars
    /\ (exp.active ~> ~ exp.active)

(* the wait for the frame of "v" timed out and the acquisition is now
   waiting for the frame of the next effect, "x" *)
C12_Witness ==
    /\ decLast.op = "waitForFrame-timeout"
    /\ exp.active
    /\ Head(exp.list).id = "x"
    /\ exp.waited = 0

----------------------------------------------------------------------------
(* Preview ticks with no seek: runs of lookup misses *)

(* the length of a run of misses looked at *)
MissThreshold == 3

StallEffectLists == {<<EffectV>>, <<EffectW>>}

StallEffectIds == UNION {EffectIds(effs) : effs \in StallEffectLists}

InitStall ==
    /\ FBIdle
    /\ EngIdle
    /\ effects \in StallEffectLists
    /\ transitions = {}
    /\ tqLast = [timecode |-> 0, result |-> <<>>]
    /\ effectStates = [id \in EffectIds(effects) |-> NoState]
    /\ orphans = [id \in EffectIds(effects) |-> 0]
    /\ compTimebase \in DecTimebases
    /\ media \in {EffectIds(effects), {}}
    /\ drawCalls = [f \in FrameIds |-> 0]
    /\ drawnClosed = FALSE
    /\ exp = NoExport
    /\ steps = <<>>
    /\ decLast = [op |-> "none", t |-> 0]
    /\ missRun = [id \in EffectIds(effects) |-> 0]
    /\ workers = [id \in EffectIds(effects) |-> 0]
    /\ mediaCtl = NewMedia
    /\ ui = NewUi

(* the run of misses of effect after a tick at t that left the world W: a
   hit ends the run, and so does a tick that tears the context down or
   creates one *)
RunAfter(W, effect, t) ==
    IF \E i \in 1..Len(W.steps) : W.steps[i].eff = effect.id THEN 0
    ELSE IF FB_get(W.es[effect.id].buffer, EffectTime(effect, t)) # NoFrame THEN 0
    ELSE missRun[effect.id] + 1

(* one tick of the preview: draw_available_frames(effects, t) *)
PreviewTick(t) ==
    /\ \A id \in DOMAIN missRun : missRun[id] < MissThreshold
    /\ LET act == VideoEffectsAt(transitions, effects, t)
           W   == draw_available_frames(CurW, act, t, transitions, compTimebase, media)
       IN  /\ Apply(W, "draw_available_frames", t)
           /\ missRun' = [id \in DOMAIN missRun |->
                            IF \E i \in 1..Len(act) : act[i].id = id
                            THEN RunAfter(W, EffectById(effects, id), t)
                            ELSE 0]

NextStall ==
    \/ \E t \in DecTimes : PreviewTick(t)
    \/ \E id \in StallEffectIds : Deliver(id)
    \/ \E id \in StallEffectIds : WorkerRecv(id)
    \/ \E id \in StallEffectIds : WorkerFlushDone(id)
    \/ \E id \in StallEffectIds : WorkerConfigureFail(id)
    \/ \E id \in StallEffectIds : DecoderOutput(id)
    \/ \E id \in StallEffectIds : WorkerEofDone(id)
    \/ \E id \in StallEffectIds : WorkerInterval(id)
    \/ \E id \in StallEffectIds : DemuxLoaded(id)
    \/ \E id \in StallEffectIds : DemuxPacket(id)
    \/ \E id \in StallEffectIds : DemuxDone(id)
    \/ \E id \in StallEffectIds : DemuxFail(id)

SpecStall == InitStall /\ [][NextStall]_vars

(* C14 as stated, for a threshold of MissThreshold ticks: the decode context
   of an effect is restarted by the time its lookups have missed on that many
   ticks in a row, so no run of misses gets that long. *)
C14_Original == \A id \in DOMAIN missRun : missRun[id] < MissThreshold

(* the effects of the timeline that are active at timecode t *)
ActiveAt(t) == EffectIds(get_effects_relative_to_timecode(transitions, effects, t))

(* C16 as stated, for the preview: a decode context exists only for effects
   in the active window, so after a tick at t an effect that is not active
   at t has no context left. *)
C16_Original ==
    decLast.op = "draw_available_frames" =>
        \A id \in DOMAIN effectStates :
            id \notin ActiveAt(decLast.t) => ~ effectStates[id].registered

(* C17: an effect whose file the media controller does not hold is skipped:
   its state has no demuxer, no message in flight and no frame, ever; and
   the acquisition that waited for it goes on to the effect after it, whose
   decode context exists afterwards. *)
C17_MissingSourceSkipped ==
    /\ [](\A id \in DOMAIN effectStates :
            id \notin media =>
                /\ effectStates[id].dmx = NoDemuxer
                /\ effectStates[id].inbox = <<>>
                /\ effectStates[id].outbox = <<>>
                /\ FB_size(effectStates[id].buffer) = 0)
    /\ [][(/\ exp.active
           /\ Head(exp.list).id \notin media
           /\ Len(exp.list) > 1
           /\ decLast'.op = "waitForFrame-timeout")
          => effectStates'[exp.list[2].id].registered]_vars

(* the file of "v" is missing and the file of "x" is not: the acquisition
   has passed "v" and has drawn the frame of "x" *)
C17_Witness ==
    /\ media = {"x"}
    /\ effectStates["v"].registered
    /\ decLast.op \in {"waitForFrame", "waitForFrame-timeout"}
    /\ ~ exp.active
    /\ \E f \in FB_ids(effectStates["x"].buffer) : drawCalls[f] > 0

(* C18 as stated: when configuring the decoder of a source fails, its decode
   context is stopped and marked failed, so no live context whose configure
   failed is ever reported as having finished decoding. *)
C18_Original ==
    \A id \in DOMAIN effectStates :
        ~ (/\ effectStates[id].w.failed
           /\ effectStates[id].registered
           /\ effectStates[id].alive
           /\ ~ effectStates[id].isDecoding)

----------------------------------------------------------------------------
(* Specification SpecMove: one video effect is moved on the timeline while
   its decode context runs and the preview draws from its buffer *)

MoveEffectLists == {<<EffectW>>}

MoveEffectIds == UNION {EffectIds(effs) : effs \in MoveEffectLists}

(* the positions (ms) the effect is dropped at *)
MovePositions == {500, 1000}

MoveTimes == {1000, 1500}

InitMove ==
    /\ FBIdle
    /\ EngIdle
    /\ effects \in MoveEffectLists
    /\ transitions = {}
    /\ tqLast = [timecode |-> 0, result |-> <<>>]
    /\ effectStates = [id \in EffectIds(effects) |-> NoState]
    /\ orphans = [id \in EffectIds(effects) |-> 0]
    /\ compTimebase \in DecTimebases
    /\ media = EffectIds(effects)
    /\ drawCalls = [f \in FrameIds |-> 0]
    /\ drawnClosed = FALSE
    /\ exp = NoExport
    /\ steps = <<>>
    /\ decLast = [op |-> "none", t |-> 0]
    /\ missRun = [id \in EffectIds(effects) |-> 0]
    /\ workers = [id \in EffectIds(effects) |-> 0]
    /\ mediaCtl = NewMedia
    /\ ui = NewUi

(* the state action that moves an effect: start_at_position changes, the
   source trim (start, end) does not; no Decoder method is called *)
MoveEffect(id, p) ==
    /\ id \in EffectIds(effects)
    /\ EffectById(effects, id).start_at_position # p
    /\ effects' = [i \in 1..Len(effects) |->
                      IF effects[i].id = id
                      THEN [effects[i] EXCEPT !.start_at_position = p]
                      ELSE effects[i]]
    /\ steps' = <<>>
    /\ decLast' = [op |-> "move_effect", t |-> p]
    /\ UNCHANGED <<fbVars, transitions, tqLast, engVars, effectStates, orphans,
                   compTimebase, media, mediaCtl, ui, drawCalls, drawnClosed, exp, missRun, workers>>

(* draw_available_frames(effects, timestamp) at a preview timecode *)
MoveDraw(t) ==
    /\ t \in MoveTimes
    /\ Commit(draw_available_frames(CurW, VideoEffectsAt(transitions, effects, t), t,
                                    transitions, compTimebase, media),
              "draw_available_frames", t)

NextMove ==
    \/ \E id \in MoveEffectIds, p \in MovePositions : MoveEffect(id, p)
    \/ \E t \in MoveTimes : MoveDraw(t)
    \/ \E id \in MoveEffectIds : Deliver(id)
    \/ \E id \in MoveEffectIds : WorkerRecv(id)
    \/ \E id \in MoveEffectIds : WorkerFlushDone(id)
    \/ \E id \in MoveEffectIds : DecoderOutput(id)
    \/ \E id \in MoveEffectIds : WorkerEofDone(id)
    \/ \E id \in MoveEffectIds : WorkerInterval(id)
    \/ \E id \in MoveEffectIds : DemuxLoaded(id)
    \/ \E id \in MoveEffectIds : DemuxPacket(id)
    \/ \E id \in MoveEffectIds : DemuxDone(id)
    \/ \E id \in MoveEffectIds : DemuxFail(id)

SpecMove == InitMove /\ [][NextMove]_vars

(* the media time (ms into the source file) shown at timeline time t by an
   effect placed at start_at_position with its trim starting at start *)
MediaTime(effect, t) == t - effect.start_at_position + effect.start

(* C24: a decode context numbers its frames from the effect-relative media
   time of the timecode it is created at, and every key of its buffer is a
   whole number of frame intervals after it; moving the effect changes no
   buffer; and a preview draw at timeline time t, wherever the effect then
   lies, draws the buffered entry whose key is the media time of t. *)
C24_KeyedByMediaTime ==
    /\ [][\A id \in MoveEffectIds :
            (~ effectStates[id].registered /\ effectStates'[id].registered)
            => /\ effectStates'[id].inbox # <<>>
               /\ Head(effectStates'[id].inbox).action = "demux"
               /\ Head(effectStates'[id].inbox).starting_timestamp
                      = MediaTime(EffectById(effects, id), decLast'.t)]_vars
    /\ [](\A id \in MoveEffectIds :
            LET w == effectStates[id].w
            IN  IF w.timebase = 0 THEN FB_size(effectStates[id].buffer) = 0
                ELSE \A k \in FB_keys(effectStates[id].buffer) :
                        /\ k < w.timestamp
                        /\ (w.timestamp - k) % (1000 \div w.timebase) = 0)
    /\ [][decLast'.op = "move_effect" => effectStates' = effectStates]_vars
    /\ [][decLast'.op = "draw_available_frames" =>
            \A id \in MoveEffectIds :
                LET k == MediaTime(EffectById(effects, id), decLast'.t)
                    b == effectStates[id].buffer
                IN  (effectStates[id].registered /\ FB_has(b, k))
                    => LET f == b.frames[FB_at(b, k)].id
                       IN  /\ effectStates'[id].buffer = b
                           /\ drawCalls'[f] = drawCalls[f] + 1]_vars

(* the effect lies at another position than when its context was created
   (the key 1000 is the media time of no timecode drawn at position 500) and
   a draw at 1500 has drawn the entry keyed 2000 *)
C24_Witness ==
    /\ decLast = [op |-> "draw_available_frames", t |-> 1500]
    /\ EffectById(effects, "w").start_at_position = 500
    /\ FB_has(effectStates["w"].buffer, 1000)
    /\ FB_has(effectStates["w"].buffer, 2000)
    /\ drawCalls[effectStates["w"].buffer.frames[FB_at(effectStates["w"].buffer, 2000)].id] > 0

----------------------------------------------------------------------------
(* Claims on the active-effect query: zero duration and order *)

(* C25: an effect whose end equals its start is not in the result of the
   active-effect query at any timecode. *)
C25_Original ==
    \A i \in 1..Len(tqLast.result) : tqLast.result[i].end # tqLast.result[i].start

(* the position of effect e in the state's effect list *)
IndexIn(effs, e) == CHOOSE i \in 1..Len(effs) : effs[i] = e

(* C26: the list returned by the active-effect query is ordered by track
   index, whatever the order of the input effect list. *)
C26_Original ==
    \A i, j \in 1..Len(tqLast.result) :
        i < j => tqLast.result[i].track <= tqLast.result[j].track

(* C26, amended: the active-effect query returns the active effects in the
   order of the input effect list, each once; it does not order them by
   track. *)
C26_InputOrder ==
    /\ \A i \in 1..Len(tqLast.result) : tqLast.result[i] \in SeqToSet(effects)
    /\ \A i, j \in 1..Len(tqLast.result) :
          i < j => IndexIn(effects, tqLast.result[i]) < IndexIn(effects, tqLast.result[j])

(* a query that returns two effects against their track order *)
C26_Witness ==
    /\ Len(tqLast.result) >= 2
    /\ tqLast.result[1].track > tqLast.result[2].track

----------------------------------------------------------------------------
(* Specification SpecPanel: the preview panel's paused-timecode effect
   (compose, seek, compose again) beside the engine API and the render loop *)

PanelEffectLists == {<<EffectA, EffectB>>}

InitPanel ==
    /\ FBIdle
    /\ effects \in PanelEffectLists
    /\ transitions \in {{}, {Transition("a", "b", 250, 250)}}
    /\ tqLast = [timecode |-> 0, result |-> <<>>]
    /\ EngIdle
    /\ DecIdle

(* the effect body up to the pending seek: returns without an engine, while
   playing and on a destroyed compositor; else compose_effects(state.effects,
   timecode) and compositor.seek(timecode, true). shown and composed note
   what the first compose left *)
PanelSync ==
    /\ eng.alive
    /\ ~ eng.is_playing
    /\ ~ comp.destroyed
    /\ ~ comp.seek_wait.pending
    /\ LET t == StateTimecode(eng)
           r == compose_effects(comp, eng, transitions, StateEffects(eng, effects), t)
           c == compositor_seek(r.c, t)
       IN  Did("panel_compose",
               Outcome([c EXCEPT !.seek_wait = [pending |-> TRUE, t |-> t,
                                                composed |-> comp.recreated,
                                                shown |-> r.c.played]],
                       r.e, r.threw, r.warned, r.rendered))
    /\ UNCHANGED <<now, recreating, recreateDone>>
    /\ EngFrame

(* the seek promise resolves: compose_effects(state.effects, timecode) again
   unless the compositor was destroyed meanwhile *)
PanelSeeked ==
    /\ comp.seek_wait.pending
    /\ LET c == [comp EXCEPT !.seek_wait = NoSeek]
       IN  IF comp.destroyed
           THEN Did("panel_seeked", Outcome(c, eng, FALSE, FALSE, FALSE))
           ELSE Did("panel_seeked",
                    compose_effects(c, eng, transitions, effects, comp.seek_wait.t))
    /\ UNCHANGED <<now, recreating, recreateDone>>
    /\ EngFrame

NextPanel ==
    \/ MarkReady
    \/ Play
    \/ Pause
    \/ \E t \in SeekTimes : Seek(t)
    \/ Tick
    \/ \E d \in ClockSteps : AdvanceClock(d)
    \/ Destroy
    \/ PanelSync
    \/ PanelSeeked

SpecPanel == InitPanel /\ [][NextPanel]_vars

(* the overlay of an effect's node: a function of the effect and of the
   timecode it is evaluated at *)
Overlay(effect, timecode) == [id |-> effect.id, track |-> effect.track, at |-> timecode]

(* the transform of every node on the canvas *)
NodeTransforms(c, effs) ==
    [id \in c.played |-> Overlay(EffectById(effs, id), c.timecode)]

(* C27: a seek changes neither the active-effect set nor the timecode the
   nodes are drawn at; and when the panel has composed at t and its seek to
   t resolves on a live compositor, the compose that follows leaves the
   active-effect set and the node transforms that the first compose left. *)
C27_ComposeSeekIdempotent ==
    /\ [][engLast'.op = "seek" =>
            /\ comp'.played = comp.played
            /\ NodeTransforms(comp', effects) = NodeTransforms(comp, effects)]_vars
    /\ [](comp.seek_wait.pending /\ engLast.op = "panel_compose"
            => /\ comp.played = comp.seek_wait.shown
               /\ (comp.seek_wait.composed =>
                      /\ comp.timecode = comp.seek_wait.t
                      /\ comp.played = ActiveIds(transitions, effects, comp.seek_wait.t)))
    /\ [][(engLast'.op = "panel_seeked" /\ comp.seek_wait.composed /\ ~ comp.destroyed)
            => /\ comp'.played = comp.seek_wait.shown
               /\ NodeTransforms(comp', effects)
                      = [id \in comp.seek_wait.shown |->
                            Overlay(EffectById(effects, id), comp.seek_wait.t)]]_vars

(* the second compose has run at a timecode where both effects are active,
   after the state's timecode has moved away from it *)
C27_Witness ==
    /\ engLast.op = "panel_seeked"
    /\ engLast.rendered
    /\ comp.played = {"a", "b"}
    /\ comp.timecode = 1700
    /\ eng.timecode # 1700

----------------------------------------------------------------------------
(* Specification SpecDemux: one demuxer run paced by the dequeue messages of
   the worker it is given *)

DemuxEffectLists == {<<EffectV>>}

DemuxEffectIds == UNION {EffectIds(effs) : effs \in DemuxEffectLists}

(* decodeQueueSize values the dequeue messages report *)
QueueSizes == {0, 1, 99, 101}

MaxQueueDepth == 120

InitDemux ==
    /\ FBIdle
    /\ EngIdle
    /\ effects \in DemuxEffectLists
    /\ transitions = {}
    /\ tqLast = [timecode |-> 0, result |-> <<>>]
    /\ effectStates = [id \in EffectIds(effects) |-> NoState]
    /\ orphans = [id \in EffectIds(effects) |-> 0]
    /\ compTimebase \in DecTimebases
    /\ media = EffectIds(effects)
    /\ drawCalls = [f \in FrameIds |-> 0]
    /\ drawnClosed = FALSE
    /\ exp = NoExport
    /\ steps = <<>>
    /\ decLast = [op |-> "none", t |-> 0]
    /\ missRun = [id \in EffectIds(effects) |-> 0]
    /\ workers = [id \in EffectIds(effects) |-> 0]
    /\ mediaCtl = NewMedia
    /\ ui = NewUi

(* the "message" listener demuxer() puts on encoderWorker: a dequeue message
   sets queue to its size *)
EncoderDequeue(id, size) ==
    /\ id \in DOMAIN effectStates
    /\ effectStates[id].dmx.pc = "read"
    /\ effectStates' = [effectStates EXCEPT ![id].dmx.queue = size]
    /\ UNCHANGED orphans
    /\ DecRest

NextDemux ==
    \/ \E id \in DemuxEffectIds, t \in DecTimes : StartPrebuffer(id, t)
    \/ \E id \in DemuxEffectIds, size \in QueueSizes : EncoderDequeue(id, size)
    \/ \E id \in DemuxEffectIds : Deliver(id)
    \/ \E id \in DemuxEffectIds : WorkerRecv(id)
    \/ \E id \in DemuxEffectIds : WorkerFlushDone(id)
    \/ \E id \in DemuxEffectIds : DecoderOutput(id)
    \/ \E id \in DemuxEffectIds : WorkerEofDone(id)
    \/ \E id \in DemuxEffectIds : WorkerInterval(id)
    \/ \E id \in DemuxEffectIds : DemuxLoaded(id)
    \/ \E id \in DemuxEffectIds : DemuxPacket(id)
    \/ \E id \in DemuxEffectIds : DemuxDone(id)
    \/ \E id \in DemuxEffectIds : DemuxFail(id)

SpecDemux == InitDemux /\ [][NextDemux]_vars

(* C28: the pacing delay does not decrease when the queue depth grows by
   one (so it is monotonically non-decreasing in the queue depth), lies
   between minDelay and maxDelay (0 and 50 ms), and is 0 for an empty queue;
   the delay slept after each chunk is that function of the queue depth last
   reported. Delays are in 1/queueLimit ms. *)
C28_PacingDelay ==
    /\ [](\A q \in 0..(MaxQueueDepth - 1) :
            calculateDynamicDelay(q) <= calculateDynamicDelay(q + 1))
    /\ [](\A q \in 0..MaxQueueDepth :
            /\ minDelay * queueLimit <= calculateDynamicDelay(q)
            /\ calculateDynamicDelay(q) <= maxDelay * queueLimit)
    /\ [](calculateDynamicDelay(0) = 0 /\ minDelay = 0 /\ maxDelay = 50)
    /\ [](\A id \in DemuxEffectIds :
            /\ 0 <= effectStates[id].dmx.delay
            /\ effectStates[id].dmx.delay <= 50 * queueLimit)
    /\ [][\A id \in DemuxEffectIds :
            effectStates'[id].dmx.i = effectStates[id].dmx.i + 1
            => /\ effectStates'[id].dmx.delay * 100 = Min2(50 * 100, effectStates[id].dmx.queue * 50) * queueLimit
               /\ (effectStates[id].dmx.queue = 0 => effectStates'[id].dmx.delay = 0)]_vars

(* chunks were paced with a delay strictly between the two limits and, with
   a deeper queue, with the maximal delay *)
C28_Witness ==
    \E id \in DemuxEffectIds :
        /\ effectStates[id].dmx.i >= 2
        /\ effectStates[id].dmx.queue > queueLimit
        /\ effectStates[id].dmx.delay = maxDelay * queueLimit

----------------------------------------------------------------------------
(* Claims on the worker protocol *)

(* the worker of id has handled the demux message of its session *)
DemuxReceived(id) ==
    /\ effectStates[id].w.timebase # 0
    /\ \A i \in 1..Len(effectStates[id].inbox) : effectStates[id].inbox[i].action # "demux"

(* C29: a decode worker that has a chunk in its decoder, has posted a
   new-frame message or has one on its way to the controller has handled
   the demux message of its session before. *)
C29_DemuxBeforeFrames ==
    \A id \in DOMAIN effectStates :
        (\/ effectStates[id].w.queue # <<>>
         \/ effectStates[id].w.posted # <<>>
         \/ \E i \in 1..Len(effectStates[id].outbox) :
                effectStates[id].outbox[i].action = "new-frame")
        => DemuxReceived(id)

(* a worker has posted a frame that is still on its way *)
C29_Witness ==
    \E id \in DOMAIN effectStates :
        /\ effectStates[id].alive
        /\ effectStates[id].w.posted # <<>>
        /\ effectStates[id].outbox # <<>>
        /\ Head(effectStates[id].outbox).action = "new-frame"

----------------------------------------------------------------------------
(* Specification SpecClean: one decode worker that is sent cleanup messages
   while its session runs, and torn down by stop_buffering *)

CleanEffectLists == {<<EffectX>>}

CleanEffectIds == UNION {EffectIds(effs) : effs \in CleanEffectLists}

CleanTimes == {0}

(* cleanup messages sent to one worker *)
MaxCleanups == 2

InitClean ==
    /\ FBIdle
    /\ EngIdle
    /\ effects \in CleanEffectLists
    /\ transitions = {}
    /\ tqLast = [timecode |-> 0, result |-> <<>>]
    /\ effectStates = [id \in EffectIds(effects) |-> NoState]
    /\ orphans = [id \in EffectIds(effects) |-> 0]
    /\ compTimebase \in DecTimebases
    /\ media = EffectIds(effects)
    /\ drawCalls = [f \in FrameIds |-> 0]
    /\ drawnClosed = FALSE
    /\ exp = NoExport
    /\ steps = <<>>
    /\ decLast = [op |-> "none", t |-> 0]
    /\ missRun = [id \in EffectIds(effects) |-> 0]
    /\ workers = [id \in EffectIds(effects) |-> 0]
    /\ mediaCtl = NewMedia
    /\ ui = NewUi

CleanupsInFlight(id) ==
    Len(SelectSeq(effectStates[id].inbox, LAMBDA m : m.action = "cleanup"))

(* worker.postMessage({action: "cleanup"}) to a running worker *)
SendCleanup(id) ==
    /\ id \in DOMAIN effectStates
    /\ effectStates[id].alive
    /\ effectStates[id].w.cleanups + CleanupsInFlight(id) < MaxCleanups
    /\ effectStates' = [effectStates EXCEPT ![id].inbox = Append(@, Msg("cleanup", 0))]
    /\ UNCHANGED orphans
    /\ DecRest

NextClean ==
    \/ \E id \in CleanEffectIds, t \in CleanTimes : StartPrebuffer(id, t)
    \/ \E id \in CleanEffectIds : StopBuffering(id)
    \/ \E id \in CleanEffectIds : SendCleanup(id)
    \/ \E id \in CleanEffectIds : Deliver(id)
    \/ \E id \in CleanEffectIds : WorkerRecv(id)
    \/ \E id \in CleanEffectIds : WorkerFlushDone(id)
    \/ \E id \in CleanEffectIds : WorkerConfigureFail(id)
    \/ \E id \in CleanEffectIds : DecoderOutput(id)
    \/ \E id \in CleanEffectIds : WorkerEofDone(id)
    \/ \E id \in CleanEffectIds : WorkerInterval(id)
    \/ \E id \in CleanEffectIds : DemuxLoaded(id)
    \/ \E id \in CleanEffectIds : DemuxPacket(id)
    \/ \E id \in CleanEffectIds : DemuxDone(id)
    \/ \E id \in CleanEffectIds : DemuxFail(id)
    \/ \E id \in CleanEffectIds : OrphanDone(id)
    \/ \E id \in CleanEffectIds : OrphanFail(id)

SpecClean == InitClean /\ [][NextClean]_vars

(* the worker state apart from the count of cleanups handled *)
Cleaned(w) == [w EXCEPT !.cleanups = 0]

(* C30: no cleanup message makes the worker's listener throw; after a
   cleanup the decoder is closed and the timer cleared, and stays so for
   the rest of the worker's life; a cleanup to a worker whose decoder is
   already closed changes nothing; and stop_buffering, which posts cleanup
   and terminates, removes the context whether or not it was cleaned up
   before. *)
C30_CleanupIdempotent ==
    /\ [](\A id \in CleanEffectIds : ~ effectStates[id].w.threw)
    /\ [][\A id \in CleanEffectIds :
            effectStates'[id].w.cleanups > effectStates[id].w.cleanups
            => /\ effectStates'[id].w.closed
               /\ ~ effectStates'[id].w.interval
               /\ effectStates'[id].w.queue = <<>>
               /\ (effectStates[id].w.cleanups > 0
                      => Cleaned(effectStates'[id].w) = Cleaned(effectStates[id].w))]_vars
    /\ [](\A id \in CleanEffectIds :
            effectStates[id].w.cleanups > 0
            => /\ effectStates[id].w.closed
               /\ ~ effectStates[id].w.interval
               /\ effectStates[id].w.queue = <<>>)
    /\ [][decLast'.op = "stop_buffering" =>
            \A id \in CleanEffectIds :
                (effectStates[id].registered /\ ~ effectStates'[id].registered)
                => /\ ~ effectStates'[id].alive
                   /\ effectStates'[id].inbox = <<>>
                   /\ ~ effectStates'[id].w.threw]_vars

(* a running worker has handled two cleanup messages, the second with its
   decoder already closed *)
C30_Witness ==
    \E id \in CleanEffectIds :
        /\ effectStates[id].alive
        /\ effectStates[id].w.cleanups = 2
        /\ effectStates[id].w.closed
        /\ ~ effectStates[id].w.threw

----------------------------------------------------------------------------
(* Claims on stale demuxers, delivered frames and the playing flags *)

(* C31: the failure of a demuxer whose context was already torn down
   tears nothing down: it terminates no worker, clears no buffer and deletes
   no registered state of the same effect id. *)
C31_Original ==
    decLast.op = "stale-demuxer-catch" =>
        \A id \in DOMAIN effectStates :
            /\ Step("release", id) \notin SeqToSet(steps)
            /\ Step("terminate", id) \notin SeqToSet(steps)
            /\ Step("delete", id) \notin SeqToSet(steps)

(* Specification SpecLive: one effect's decode context is created, sought,
   stopped and created again; the steps of the worker, of the demuxer and
   the delivery of messages are taken whenever they stay possible, the
   Decoder calls only when a caller makes them *)

LiveEffectLists == {<<EffectV>>}

LiveEffectIds == UNION {EffectIds(effs) : effs \in LiveEffectLists}

InitLive ==
    /\ FBIdle
    /\ EngIdle
    /\ effects \in LiveEffectLists
    /\ transitions = {}
    /\ tqLast = [timecode |-> 0, result |-> <<>>]
    /\ effectStates = [id \in EffectIds(effects) |-> NoState]
    /\ orphans = [id \in EffectIds(effects) |-> 0]
    /\ compTimebase \in DecTimebases
    /\ media = EffectIds(effects)
    /\ drawCalls = [f \in FrameIds |-> 0]
    /\ drawnClosed = FALSE
    /\ exp = NoExport
    /\ steps = <<>>
    /\ decLast = [op |-> "none", t |-> 0]
    /\ missRun = [id \in EffectIds(effects) |-> 0]
    /\ workers = [id \in EffectIds(effects) |-> 0]
    /\ mediaCtl = NewMedia
    /\ ui = NewUi

(* the steps the event loop takes without a caller *)
PipelineStep ==
    \E id \in LiveEffectIds :
        \/ Deliver(id)
        \/ WorkerRecv(id)
        \/ WorkerFlushDone(id)
        \/ DecoderOutput(id)
        \/ WorkerEofDone(id)
        \/ WorkerInterval(id)
        \/ DemuxLoaded(id)
        \/ DemuxPacket(id)
        \/ DemuxDone(id)
        \/ OrphanDone(id)

NextLive ==
    \/ \E id \in LiveEffectIds, t \in DecTimes : StartPrebuffer(id, t)
    \/ \E id \in LiveEffectIds : StopBuffering(id)
    \/ \E t \in DecTimes : DecSeek(t)
    \/ PipelineStep

SpecLive == InitLive /\ [][NextLive]_vars /\ WF_vars(PipelineStep)

(* C32: every frame a worker has delivered is closed at some later
   time. *)
C32_Original ==
    \A f \in FrameIds : (Referenced(f) ~> closeCalls[f] > 0)

(* C32, amended: a delivered frame is put into the buffer of its registered
   context or closed at once; a frame leaves the buffers only by being closed
   (eviction, replacement, clear or teardown); and a worker that was
   terminated delivers nothing, so no frame arrives after its context's
   buffer was cleared. A frame stays open for as long as its buffer holds
   it. *)
C32_HeldUntilClosed ==
    /\ [][\A f \in FrameIds :
            (Referenced(f) /\ ~ Referenced(f)') => closeCalls'[f] = 1]_vars
    /\ [][\A id \in LiveEffectIds :
            (/\ effectStates[id].outbox # <<>>
             /\ Head(effectStates[id].outbox).action = "new-frame"
             /\ effectStates'[id].outbox = Tail(effectStates[id].outbox)
             /\ decLast'.op = "none")
            => /\ effectStates'[id].registered
               /\ \E f \in FrameIds :
                     /\ ~ Referenced(f)
                     /\ Referenced(f)' \/ closeCalls'[f] = 1]_vars
    /\ [](\A id \in LiveEffectIds :
            ~ effectStates[id].alive => effectStates[id].outbox = <<>>)
    /\ [](\A f \in FrameIds : Referenced(f) => closeCalls[f] = 0)

(* a seek restart or a stop has closed a buffered frame while a frame message
   of the torn-down worker was still under way *)
C32_Witness ==
    /\ decLast.op \in {"seek", "stop_buffering"}
    /\ \E f \in FrameIds : closeCalls[f] = 1 /\ ~ Referenced(f)
    /\ \E id \in LiveEffectIds : Step("terminate", id) \in SeqToSet(steps)

(* C33: after any sequence of play(), pause() and togglePlayback() calls,
   interleaved with ticks, seeks, recreate and destroy, the compositor's
   #is_playing equals is_playing of the state tree. *)
C33_FlagsAgree == comp.is_playing = eng.is_playing

(* a toggle has switched both flags off after a play() had set them *)
C33_Witness ==
    /\ engLast.op = "togglePlayback"
    /\ ~ comp.is_playing
    /\ ~ eng.is_playing
    /\ comp.last_time > 0

(* Specification SpecLoop: an engine session in which, once the compositor
   is destroyed, animation-frame callbacks requested earlier still fire and
   markReady() is called again *)

(* a callback of #on_playing that cancelAnimationFrame did not reach *)
StaleTick ==
    /\ comp.destroyed
    /\ Did("tick", on_playing(comp, eng, transitions, effects, now))
    /\ UNCHANGED <<now, recreating, recreateDone>>
    /\ EngFrame

(* compositor.markReady() on the destroyed compositor *)
MarkReadyLater ==
    /\ comp.destroyed
    /\ Did("markReady",
           on_playing([comp EXCEPT !.recreated = TRUE], eng, transitions, effects, now))
    /\ UNCHANGED <<now, recreating, recreateDone>>
    /\ EngFrame

NextLoop ==
    \/ NextEng
    \/ StaleTick
    \/ MarkReadyLater

SpecLoop == InitEng /\ [][NextLoop]_vars

(* C35: once the compositor is destroyed, a run of the render loop (a
   callback scheduled before destroy or the one started by a later
   markReady()) neither advances the timecode nor composes nor throws, and
   requests no further frame; destroy leaves no frame requested. *)
C35_NoTickAfterDestroy ==
    /\ [][(comp.destroyed /\ engLast'.op \in {"tick", "markReady"})
            => /\ eng'.timecode = eng.timecode
               /\ comp'.timecode = comp.timecode
               /\ comp'.played = comp.played
               /\ ~ engLast'.rendered
               /\ ~ engLast'.threw
               /\ ~ comp'.raf]_vars
    /\ [][comp.destroyed => comp'.destroyed]_vars
    /\ [](comp.destroyed => ~ comp.raf)

(* markReady() was called on a destroyed compositor whose playing flag a
   later play() had set again *)
C35_Witness ==
    /\ comp.destroyed
    /\ comp.is_playing
    /\ engLast.op \in {"tick", "markReady"}
    /\ now > 0

(* Specification SpecMissing: the Decoder of one video effect whose media
   file is imported only after the session has begun *)

MissingEffectLists == {<<EffectV>>}

MissingEffectIds == UNION {EffectIds(effs) : effs \in MissingEffectLists}

MissingTimes == {0}

InitMissing ==
    /\ FBIdle
    /\ EngIdle
    /\ effects \in MissingEffectLists
    /\ transitions = {}
    /\ tqLast = [timecode |-> 0, result |-> <<>>]
    /\ effectStates = [id \in EffectIds(effects) |-> NoState]
    /\ orphans = [id \in EffectIds(effects) |-> 0]
    /\ compTimebase \in DecTimebases
    /\ media = {}
    /\ drawCalls = [f \in FrameIds |-> 0]
    /\ drawnClosed = FALSE
    /\ exp = NoExport
    /\ steps = <<>>
    /\ decLast = [op |-> "none", t |-> 0]
    /\ missRun = [id \in EffectIds(effects) |-> 0]
    /\ workers = [id \in EffectIds(effects) |-> 0]
    /\ mediaCtl = NewMedia
    /\ ui = NewUi

(* the file of an effect is added to the Media map *)
ImportFile(id) ==
    /\ id \notin media
    /\ media' = media \cup {id}
    /\ steps' = <<>>
    /\ decLast' = [op |-> "import_file", t |-> 0]
    /\ closeCalls' = Live(closeCalls)
    /\ drawCalls' = Live(drawCalls)
    /\ UNCHANGED <<fb, fbLast, fbArgs, nextId, tqVars, engVars, compTimebase, mediaCtl, ui,
                   effectStates, orphans, drawnClosed, exp, missRun, workers>>

NextMissing ==
    \/ \E id \in MissingEffectIds, t \in MissingTimes : StartPrebuffer(id, t)
    \/ \E id \in MissingEffectIds : StopBuffering(id)
    \/ \E id \in MissingEffectIds : ImportFile(id)
    \/ \E id \in MissingEffectIds : Deliver(id)
    \/ \E id \in MissingEffectIds : WorkerRecv(id)
    \/ \E id \in MissingEffectIds : WorkerFlushDone(id)
    \/ \E id \in MissingEffectIds : DecoderOutput(id)
    \/ \E id \in MissingEffectIds : WorkerEofDone(id)
    \/ \E id \in MissingEffectIds : WorkerInterval(id)
    \/ \E id \in MissingEffectIds : DemuxLoaded(id)
    \/ \E id \in MissingEffectIds : DemuxPacket(id)
    \/ \E id \in MissingEffectIds : DemuxDone(id)
    \/ \E id \in MissingEffectIds : OrphanDone(id)

SpecMissing == InitMissing /\ [][NextMissing]_vars

(* C34: after a start_prebuffer call made while the effect's file is in the
   Media map, the effect has a decode context whose demuxer was started, also
   when an earlier start_prebuffer had found no file. *)
C34_Original ==
    \A id \in DOMAIN effectStates :
        (decLast.op = "start_prebuffer" /\ FileFound(EffectById(effects, id), media))
        => /\ effectStates[id].registered
           /\ effectStates[id].dmx # NoDemuxer

(* Specification SpecMedia: one Media controller, its initial load, import
   calls that may overlap and callers of are_files_ready(); the completion
   handlers and the polling timers run whenever they stay possible *)

MediaFrame ==
    /\ UNCHANGED <<fbVars, tqVars, engVars, effectStates, orphans, compTimebase,
                   drawCalls, drawnClosed, exp, steps, decLast, missRun, workers, ui>>

InitMedia ==
    /\ FBIdle
    /\ TQIdle
    /\ EngIdle
    /\ DecIdle

(* #get_imported_files(): request.onsuccess *)
GetImportedFilesDone ==
    /\ ~ mediaCtl.loaded
    /\ mediaCtl' = [mediaCtl EXCEPT !.loaded = TRUE, !.files_ready = TRUE]
    /\ UNCHANGED media
    /\ MediaFrame

(* import_file_with_metadata(file, hash, metadata, isProxy) is called *)
ImportStart(i, hasMeta, del) ==
    /\ mediaCtl.loaded
    /\ mediaCtl.imports[i].pc = "idle"
    /\ mediaCtl' = import_start(mediaCtl, i, hasMeta, del)
    /\ media' = IF hasMeta /\ del THEN media \ {ImportHash(i)} ELSE media
    /\ MediaFrame

(* getVideoFileMetadata resolves *)
MetaDone(i) ==
    /\ mediaCtl.imports[i].pc = "meta"
    /\ mediaCtl' = [mediaCtl EXCEPT !.imports[i].pc =
                        IF mediaCtl.imports[i].del THEN "delete" ELSE "count"]
    /\ media' = IF mediaCtl.imports[i].del THEN media \ {ImportHash(i)} ELSE media
    /\ MediaFrame

(* getVideoFileMetadata rejects (video.onerror or the 30 s timeout): the
   import call throws *)
MetaFail(i) ==
    /\ mediaCtl.imports[i].pc = "meta"
    /\ mediaCtl' = [mediaCtl EXCEPT !.imports[i].pc = "failed"]
    /\ UNCHANGED media
    /\ MediaFrame

(* delete_file: request.onsuccess *)
DeleteDone(i) ==
    /\ mediaCtl.imports[i].pc = "delete"
    /\ mediaCtl' = [mediaCtl EXCEPT !.imports[i].pc = "count"]
    /\ UNCHANGED media
    /\ MediaFrame

(* check_if_duplicate.onsuccess: the media is stored and set *)
CountSuccess(i) ==
    /\ mediaCtl.imports[i].pc = "count"
    /\ mediaCtl' = import_settle(mediaCtl, i, "done")
    /\ media' = media \cup {ImportHash(i)}
    /\ MediaFrame

(* check_if_duplicate.onerror *)
CountError(i) ==
    /\ mediaCtl.imports[i].pc = "count"
    /\ mediaCtl' = import_settle(mediaCtl, i, "failed")
    /\ UNCHANGED media
    /\ MediaFrame

(* are_files_ready() is called: resolves at once when #files_ready *)
AreFilesReady(k) ==
    /\ mediaCtl.waiters[k] = "none"
    /\ mediaCtl' = [mediaCtl EXCEPT !.waiters[k] =
                        IF mediaCtl.files_ready THEN "resolved" ELSE "waiting"]
    /\ UNCHANGED media
    /\ MediaFrame

(* the 100 ms interval of a waiting are_files_ready() finds #files_ready *)
PollReady(k) ==
    /\ mediaCtl.waiters[k] = "waiting"
    /\ mediaCtl.files_ready
    /\ mediaCtl' = [mediaCtl EXCEPT !.waiters[k] = "resolved"]
    /\ UNCHANGED media
    /\ MediaFrame

(* the steps that need no caller *)
MediaStep ==
    \/ GetImportedFilesDone
    \/ \E i \in ImportIds : MetaDone(i) \/ MetaFail(i)
    \/ \E i \in ImportIds : DeleteDone(i)
    \/ \E i \in ImportIds : CountSuccess(i) \/ CountError(i)
    \/ \E k \in WaiterIds : PollReady(k)

NextMedia ==
    \/ \E i \in ImportIds, hasMeta \in BOOLEAN, del \in BOOLEAN : ImportStart(i, hasMeta, del)
    \/ \E k \in WaiterIds : AreFilesReady(k)
    \/ MediaStep

SpecMedia == InitMedia /\ [][NextMedia]_vars /\ WF_vars(MediaStep)

(* C36: while an import_file_with_metadata call has started and not yet
   returned, #files_ready is false. *)
C36_Original ==
    (\E i \in ImportIds : Awaiting(mediaCtl, i)) => ~ mediaCtl.files_ready

(* C37: an are_files_ready() call that waits while no import is under way
   any more is resolved at some later time. *)
C37_Original ==
    \A k \in WaiterIds :
        (/\ mediaCtl.waiters[k] = "waiting"
         /\ \A i \in ImportIds : ~ Running(mediaCtl, i))
        ~> mediaCtl.waiters[k] = "resolved"

(* Specification SpecToolbar: the preview toolbar's play button over engine
   sessions that are destroyed and created again, with one playback store *)

(* the toggle handler of the preview toolbar: compose and seek first when
   paused, then engine.togglePlayback() and the store's toggle() *)
ToolbarToggle ==
    /\ eng.alive
    /\ LET r1 == IF ~ eng.is_playing
                 THEN compose_effects(comp, eng, transitions,
                                      StateEffects(eng, effects), StateTimecode(eng))
                 ELSE Outcome(comp, eng, FALSE, FALSE, FALSE)
           r2 == toggle_video_playing(compositor_seek(r1.c, StateTimecode(eng)), r1.e)
       IN  Did("toolbar-toggle", Outcome(r2.c, r2.e, r1.threw, r1.warned, r1.rendered))
    /\ ui' = store_toggle(ui)
    /\ UNCHANGED <<now, recreating, recreateDone, fbVars, tqVars, effectStates, orphans,
                   compTimebase, media, mediaCtl, drawCalls, drawnClosed, exp, steps,
                   decLast, missRun, workers>>

(* createEngine() after the earlier engine was destroyed: new state trees,
   new Compositor *)
EngineCreate ==
    /\ ~ eng.alive
    /\ comp' = NewCompositor
    /\ eng' = NewEngine
    /\ engLast' = [op |-> "createEngine", threw |-> FALSE, warned |-> FALSE,
                   rendered |-> FALSE]
    /\ UNCHANGED <<now, recreating, recreateDone>>
    /\ EngFrame

NextToolbar ==
    \/ MarkReady
    \/ ToolbarToggle
    \/ Tick
    \/ \E d \in ClockSteps : AdvanceClock(d)
    \/ Destroy
    \/ EngineCreate

SpecToolbar == InitEng /\ [][NextToolbar]_vars

(* C38: while an engine exists, usePlaybackStore.isPlaying equals the
   engine's is_playing. *)
C38_Original == eng.alive => ui.isPlaying = eng.is_playing

(* Specification SpecSync: the preview panel's syncEffects over a timeline
   of two media elements whose files syncMediaToEngine imports; every import
   succeeds, and the imports, the retry timeout and the resumption of a
   waiting syncEffects call each happen whenever they stay possible *)

(* the timeline's elements, in track order, as the effects tracksToEffects
   makes of them *)
TimelineEffects == <<EffectA, EffectB>>

ElementIds == EffectIds(TimelineEffects)

(* the import that syncs the media file of an element *)
ElementMedia(e) == IF e = "a" THEN 1 ELSE 2

(* tracksToEffects: the effects of the elements whose media id has a hash
   registered; the others are pending *)
tracksToEffects(mapped) ==
    [effects |-> SelectSeq(TimelineEffects, LAMBDA e : ElementMedia(e.id) \in mapped),
     pendingMediaIds |-> {ElementMedia(e) : e \in ElementIds} \ mapped]

SyncFrame ==
    UNCHANGED <<fbVars, transitions, tqLast, engVars, effectStates, orphans, compTimebase,
                media, drawCalls, drawnClosed, exp, steps, decLast, missRun, workers>>

InitSync ==
    /\ FBIdle
    /\ TQIdle
    /\ EngIdle
    /\ DecIdle

(* importMediaToEngine after its await of import_file_with_metadata:
   registerMediaMapping(mediaFile.id, hash) *)
RegisterMapping(i) ==
    /\ mediaCtl.imports[i].pc \in {"count", "done"}
    /\ i \notin ui.mapped
    /\ ui' = [ui EXCEPT !.mapped = @ \cup {i}]
    /\ UNCHANGED <<effects, mediaCtl>>
    /\ SyncFrame

(* syncEffects(), called by the effect or by the retry timeout, up to its
   await of media.are_files_ready(), and through it when the files are
   ready *)
SyncEffects ==
    /\ ui.due
    /\ \E r \in RunIds : ui.runs[r].pc = "none"
    /\ LET r == CHOOSE x \in RunIds :
                    /\ ui.runs[x].pc = "none"
                    /\ \A y \in RunIds : ui.runs[y].pc = "none" => x <= y
           t == tracksToEffects(ui.mapped)
           changed == t.effects # effects
           u1 == [ui EXCEPT !.due = t.pendingMediaIds # {}]
       IN  IF changed /\ t.effects # <<>>
           THEN IF mediaCtl.files_ready
                THEN /\ effects' = t.effects
                     /\ ui' = u1
                ELSE /\ effects' = effects
                     /\ ui' = [u1 EXCEPT !.runs[r] = [pc |-> "await",
                                                     effs |-> EffectIds(t.effects)]]
           ELSE /\ effects' = IF t.effects = <<>> THEN <<>> ELSE effects
                /\ ui' = u1
    /\ UNCHANGED mediaCtl
    /\ SyncFrame

(* a syncEffects() call resumes after are_files_ready(): remove_all_effects,
   then the effects it had computed are added *)
SyncResume(r) ==
    /\ ui.runs[r].pc = "await"
    /\ mediaCtl.files_ready
    /\ effects' = SelectSeq(TimelineEffects, LAMBDA e : e.id \in ui.runs[r].effs)
    /\ ui' = [ui EXCEPT !.runs[r] = NoRun]
    /\ UNCHANGED mediaCtl
    /\ SyncFrame

(* syncMediaToEngine and the Media controller's handlers *)
SyncMediaStep ==
    \/ GetImportedFilesDone
    \/ \E i \in ImportIds : ImportStart(i, TRUE, TRUE)
    \/ \E i \in ImportIds : DeleteDone(i)
    \/ \E i \in ImportIds : CountSuccess(i)
    \/ \E i \in ImportIds : RegisterMapping(i)

NextSync ==
    \/ SyncMediaStep
    \/ SyncEffects
    \/ \E r \in RunIds : SyncResume(r)

SpecSync ==
    /\ InitSync
    /\ [][NextSync]_vars
    /\ WF_vars(SyncMediaStep)
    /\ WF_vars(SyncEffects)
    /\ \A r \in RunIds : WF_vars(SyncResume(r))

(* C39: with every media file synced in the end, the engine comes to hold an
   effect for every timeline element and keeps holding them. *)
C39_Original == <>[](EffectIds(effects) = ElementIds)

(* C40: the worker closes every frame its decoder outputs in the callback
   that receives it. *)
C40_Original ==
    [][\A id \in DOMAIN effectStates :
         (/\ effectStates[id].alive
          /\ effectStates[id].w.queue # <<>>
          /\ decLast'.op = "none"
          /\ effectStates'[id].alive
          /\ effectStates'[id].inbox = effectStates[id].inbox
          /\ effectStates'[id].w.closed = effectStates[id].w.closed
          /\ effectStates'[id].w.queue = Tail(effectStates[id].w.queue))
         => outputCloses(effectStates[id].w, Head(effectStates[id].w.queue))]_vars

====
